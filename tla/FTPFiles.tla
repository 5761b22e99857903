----------------------------- MODULE FTPFiles -----------------------------
(***************************************************************************)
(* The commands that work on the tree of files and directories: CWD, CDUP, *)
(* RNFR, RNTO, DELE, RMD, MKD and SIZE (FTP-Server/FTPSession.cpp), as the *)
(* sessions of users that are logged in execute them on one tree.  All     *)
(* accounts have the same root directory, Home, which is one of the paths: *)
(* FTP2LocalPath compares what a parameter leads to with it.               *)
(*                                                                         *)
(* RNTO, DELE and SIZE look before they act.  These are two steps, between *)
(* which the threads of other sessions may act.                            *)
(*                                                                         *)
(* An exception that leaves a handler leaves io_context::run(), which      *)
(* neither main() nor the threads catch: the server ends.                  *)
(***************************************************************************)
EXTENDS Naturals, Sequences, SequencesExt

CONSTANTS
  LoggedIn,  \* the sessions
  Paths,     \* the paths of the file system, as sequences of names
  Home,      \* localRootPath_ of all accounts
  NameOrder, \* the pairs of names of which the first sorts before the second
  Params,    \* the path parameters that clients send
  Contents,  \* what tells files apart
  Absent,    \* there is nothing at a path
  Dir,       \* there is a directory
  Nothing    \* no parameter; no call under way

(* A parameter is absolute or relative and has names, of which some may be *)
(* "..".                                                                   *)
Root == <<>>
Up == [abs |-> FALSE, names |-> <<"..">>]
Empty == [abs |-> FALSE, names |-> Root]

(* What paths are made of; with a path, all that lead to it are paths. *)
Names == UNION {Range(p) : p \in Paths}

ASSUME FilesAssumption ==
  /\ Root \in Paths /\ Home \in Paths \ {Root} /\ Paths \subseteq Seq(Names)
  /\ \A p \in Paths : Prefixes(p) \subseteq Paths
  /\ ".." \notin Names
  /\ Absent # Dir /\ {Absent, Dir} \cap Contents = {}
  /\ Nothing \notin Params

VARIABLES
  tree,       \* what is at each path
  up,         \* the server has not terminated
  workDir,    \* ftpWorkingDir_
  lastCmd,    \* lastCmd_ is "RNFR", or "other"
  renameSrc,  \* renameSrcPath_, Nothing while it is empty
  call,       \* the file system call a handler is about to make
  reply       \* the code of the latest reply of each session

commandVars == <<workDir, lastCmd, renameSrc>>
filesVars == <<tree, up, commandVars, call, reply>>

COMMAND_OK == 200
FILE_STATUS == 213
FILE_ACTION_COMPLETED == 250
PATHNAME_CREATED == 257
NEEDS_FURTHER_INFO == 350
FILE_ACTION_NOT_TAKEN == 450
SYNTAX_ERROR_PARAMETERS == 501
BAD_SEQUENCE == 503
ACTION_NOT_TAKEN == 550

Refusals == {450, 501, 503, 550}
Codes == {0, 200, 213, 250, 257, 350} \cup Refusals
Calls == [op : {"rename", "remove", "size"}, src : Paths, dst : Paths]

FilesTypeOK ==
  /\ tree \in [Paths -> Contents \cup {Absent, Dir}]
  /\ up \in BOOLEAN
  /\ workDir \in [LoggedIn -> Paths]
  /\ lastCmd \in [LoggedIn -> {"RNFR", "other"}]
  /\ renameSrc \in [LoggedIn -> Params \cup {Nothing}]
  /\ call \in [LoggedIn -> Calls \cup {Nothing}]
  /\ reply \in [LoggedIn -> Codes]

-----------------------------------------------------------------------------
(* The file system.                                                        *)

Exists(p) == tree[p] # Absent
IsDir(p) == tree[p] = Dir
IsFile(p) == tree[p] \in Contents
Below(p) == {q \in Paths : IsPrefix(p, q)}
HasEntries(p) == \E q \in Below(p) \ {p} : Exists(q)
ParentIsDir(p) == p # Root /\ IsDir(Front(p))

(* Where the path q below src goes when src becomes dst. *)
Rebase(q, src, dst) == dst \o SubSeq(q, Len(src) + 1, Len(q))

(* rename(2): a file replaces a file and a directory an empty directory,   *)
(* but nothing becomes a part of itself; what would be longer than every   *)
(* path fails.                                                             *)
CanRename(src, dst) ==
  /\ Exists(src) /\ ParentIsDir(dst)
  /\ ~IsPrefix(src, dst)
  /\ \/ ~Exists(dst)
     \/ IsFile(src) /\ IsFile(dst)
     \/ IsDir(src) /\ IsDir(dst) /\ ~HasEntries(dst)
  /\ \A q \in Below(src) : Exists(q) => Rebase(q, src, dst) \in Paths

Renamed(src, dst) ==
  [p \in Paths |->
     IF IsPrefix(dst, p)
     THEN IF Rebase(p, dst, src) \in Paths THEN tree[Rebase(p, dst, src)] ELSE Absent
     ELSE IF IsPrefix(src, p) THEN Absent ELSE tree[p]]

Removed(p) == [q \in Paths |-> IF IsPrefix(p, q) THEN Absent ELSE tree[q]]

(* weakly_canonical goes up at "..", though not above the root.  There are *)
(* no links.                                                               *)
Into(p, name) ==
  IF name # ".." THEN Append(p, name) ELSE IF p = Root THEN Root ELSE Front(p)

(* Paths are compared name by name: what a path begins with is before it.  *)
IsBefore(p, q) ==
  \E k \in 0 .. Len(p) :
    /\ k < Len(q) /\ SubSeq(p, 1, k) = SubSeq(q, 1, k)
    /\ k = Len(p) \/ <<p[k + 1], q[k + 1]>> \in NameOrder

(* Only what is before Home becomes Home: a path that leads out of it and  *)
(* is behind it stays as it is.                                            *)
FTP2LocalPath(s, par) ==
  LET path == FoldLeft(Into, IF par.abs THEN Home ELSE workDir[s], par.names)
  IN IF IsBefore(path, Home) THEN Home ELSE path

-----------------------------------------------------------------------------
(* The parts of the handlers.                                              *)

(* A session begins the next command when the last has been answered.      *)
(* Parameters that lead elsewhere than to Paths are not enumerated.        *)
Ready(s) == up /\ call[s] = Nothing
Takes(s, par) == Ready(s) /\ FTP2LocalPath(s, par) \in Paths

Reply(s, code) == reply' = [reply EXCEPT ![s] = code]
Remember(s, cmd) == lastCmd' = [lastCmd EXCEPT ![s] = cmd]

(* The command is answered and only lastCmd_ changes. *)
JustReply(s, code) ==
  /\ Reply(s, code)
  /\ Remember(s, "other")
  /\ UNCHANGED <<tree, up, workDir, renameSrc, call>>

(* The handler has looked and is about to act. *)
AboutTo(s, op, src, dst) ==
  /\ call' = [call EXCEPT ![s] = [op |-> op, src |-> src, dst |-> dst]]
  /\ UNCHANGED <<tree, up, commandVars, reply>>

(* The call is made, with this reply. *)
Made(s, code) ==
  /\ call' = [call EXCEPT ![s] = Nothing]
  /\ Reply(s, code)
  /\ Remember(s, "other")
  /\ UNCHANGED <<up, workDir, renameSrc>>

Throw == up' = FALSE /\ UNCHANGED <<tree, commandVars, call, reply>>

FilesInit ==
  /\ tree \in [Paths -> Contents \cup {Absent, Dir}]
  /\ IsDir(Root) /\ IsDir(Home)
  /\ \A p \in Paths : HasEntries(p) => IsDir(p)   \* entries are in directories
  /\ \A p, q \in Paths : IsFile(p) /\ tree[p] = tree[q] => p = q
  /\ up = TRUE
  /\ workDir = [s \in LoggedIn |-> Home]
  /\ lastCmd = [s \in LoggedIn |-> "other"]
  /\ renameSrc = [s \in LoggedIn |-> Nothing]
  /\ call = [s \in LoggedIn |-> Nothing]
  /\ reply = [s \in LoggedIn |-> 0]

-----------------------------------------------------------------------------
(* The handlers.                                                           *)

(* Mutant: a new login clears the directory and waits for a CWD. *)
PASSClears(s) ==
  /\ Ready(s)
  /\ workDir' = [workDir EXCEPT ![s] = Nothing]
  /\ Reply(s, COMMAND_OK)
  /\ Remember(s, "other")
  /\ UNCHANGED <<tree, up, renameSrc, call>>

(* A new login goes back to Home and keeps the rest; any other command *)
(* only counts as the last one.                                            *)
PASS(s) ==
  /\ Ready(s)
  /\ workDir' = [workDir EXCEPT ![s] = Home]
  /\ Reply(s, COMMAND_OK)
  /\ Remember(s, "other")
  /\ UNCHANGED <<tree, up, renameSrc, call>>

Other(s) == Ready(s) /\ JustReply(s, COMMAND_OK)

(* What CWD does to go to a directory, and answers with this code. *)
ChangeDir(s, par, code) ==
  /\ Takes(s, par)
  /\ IsDir(FTP2LocalPath(s, par))
  /\ workDir' = [workDir EXCEPT ![s] = FTP2LocalPath(s, par)]
  /\ Reply(s, code)
  /\ Remember(s, "other")
  /\ UNCHANGED <<tree, up, renameSrc, call>>

(* Mutant: the new directory is set, then looked at. *)
CWDBlindly(s, par) ==
  /\ Takes(s, par)
  /\ par # Empty
  /\ workDir' = [workDir EXCEPT ![s] = FTP2LocalPath(s, par)]
  /\ Reply(s, IF IsDir(FTP2LocalPath(s, par)) THEN FILE_ACTION_COMPLETED
                                              ELSE ACTION_NOT_TAKEN)
  /\ Remember(s, "other")
  /\ UNCHANGED <<tree, up, renameSrc, call>>

CWD(s, par) ==
  /\ par # Empty
  /\ ChangeDir(s, par, FILE_ACTION_COMPLETED)

CWDRefused(s, par) ==
  /\ Takes(s, par)
  /\ \/ par = Empty /\ JustReply(s, SYNTAX_ERROR_PARAMETERS)
     \/ par # Empty /\ ~IsDir(FTP2LocalPath(s, par)) /\ JustReply(s, ACTION_NOT_TAKEN)

(* CDUP is a CWD to ".." except at Home, and answers 200 for its 250.     *)
CDUP(s) ==
  /\ Ready(s)
  /\ IF workDir[s] = Home
     THEN JustReply(s, ACTION_NOT_TAKEN)
     ELSE ChangeDir(s, Up, COMMAND_OK) \/ CWDRefused(s, Up)

RNFR(s, par) ==
  /\ Takes(s, par)
  /\ IF par # Empty /\ Exists(FTP2LocalPath(s, par))
     THEN /\ renameSrc' = [renameSrc EXCEPT ![s] = par]
          /\ Reply(s, NEEDS_FURTHER_INFO)
     ELSE /\ Reply(s, IF par = Empty THEN SYNTAX_ERROR_PARAMETERS ELSE ACTION_NOT_TAKEN)
          /\ UNCHANGED renameSrc
  /\ Remember(s, "RNFR")
  /\ UNCHANGED <<tree, up, workDir, call>>

(* What RNTO asks before it looks at its parameter. *)
Announced(s) == lastCmd[s] = "RNFR" /\ renameSrc[s] # Nothing
SourceExists(s) ==
  LET src == FTP2LocalPath(s, renameSrc[s]) IN src \in Paths /\ Exists(src)

(* Mutant: the target is not looked at. *)
RNTOBlindly(s, par) ==
  /\ Takes(s, par)
  /\ Announced(s) /\ par # Empty /\ SourceExists(s)
  /\ AboutTo(s, "rename", FTP2LocalPath(s, renameSrc[s]), FTP2LocalPath(s, par))

RNTO(s, par) ==
  /\ Takes(s, par)
  /\ Announced(s) /\ par # Empty /\ SourceExists(s)
  /\ ~Exists(FTP2LocalPath(s, par))
  /\ AboutTo(s, "rename", FTP2LocalPath(s, renameSrc[s]), FTP2LocalPath(s, par))

RNTORefused(s, par) ==
  /\ Takes(s, par)
  /\ \/ ~Announced(s) /\ JustReply(s, BAD_SEQUENCE)
     \/ /\ Announced(s)
        /\ \/ par = Empty /\ JustReply(s, SYNTAX_ERROR_PARAMETERS)
           \/ par # Empty /\ ~SourceExists(s) /\ JustReply(s, ACTION_NOT_TAKEN)
           \/ /\ par # Empty /\ SourceExists(s) /\ Exists(FTP2LocalPath(s, par))
              /\ JustReply(s, FILE_ACTION_NOT_TAKEN)

rename(s) ==
  /\ up /\ call[s] # Nothing /\ call[s].op = "rename"
  /\ LET src == call[s].src
         dst == call[s].dst
     IN \/ /\ CanRename(src, dst)
           /\ tree' = Renamed(src, dst)
           /\ Made(s, FILE_ACTION_COMPLETED)
        \/ /\ src = dst /\ Exists(src)
           /\ UNCHANGED tree
           /\ Made(s, FILE_ACTION_COMPLETED)
        \/ /\ ~CanRename(src, dst) /\ ~(src = dst /\ Exists(src))
           /\ UNCHANGED tree
           /\ Made(s, FILE_ACTION_NOT_TAKEN)

(* Mutant: anything that exists is deleted. *)
DELEAnything(s, par) ==
  /\ Takes(s, par)
  /\ Exists(FTP2LocalPath(s, par))
  /\ AboutTo(s, "remove", FTP2LocalPath(s, par), Root)

DELE(s, par) ==
  /\ Takes(s, par)
  /\ IsFile(FTP2LocalPath(s, par))
  /\ AboutTo(s, "remove", FTP2LocalPath(s, par), Root)

DELERefused(s, par) ==
  /\ Takes(s, par)
  /\ ~IsFile(FTP2LocalPath(s, par))
  /\ JustReply(s, ACTION_NOT_TAKEN)

(* fs::remove takes a file or an empty directory, and throws at another.   *)
remove(s) ==
  /\ up /\ call[s] # Nothing /\ call[s].op = "remove"
  /\ LET p == call[s].src IN
       \/ /\ Exists(p) /\ ~HasEntries(p)
          /\ tree' = Removed(p)
          /\ Made(s, FILE_ACTION_COMPLETED)
       \/ /\ ~Exists(p)
          /\ UNCHANGED tree
          /\ Made(s, FILE_ACTION_NOT_TAKEN)
       \/ /\ HasEntries(p)
          /\ Throw

(* RMD removes whatever is there, with all that is below. *)
RMD(s, par) ==
  /\ Takes(s, par)
  /\ LET p == FTP2LocalPath(s, par) IN
       /\ tree' = Removed(p)
       /\ Reply(s, IF Exists(p) THEN FILE_ACTION_COMPLETED ELSE ACTION_NOT_TAKEN)
  /\ Remember(s, "other")
  /\ UNCHANGED <<up, workDir, renameSrc, call>>

(* fs::create_directory returns false at a directory that exists, and      *)
(* throws at a file or where there is no parent to create it in.           *)
MKD(s, par) ==
  /\ Takes(s, par)
  /\ LET p == FTP2LocalPath(s, par) IN
       \/ /\ ~Exists(p) /\ ParentIsDir(p)
          /\ tree' = [tree EXCEPT ![p] = Dir]
          /\ Reply(s, PATHNAME_CREATED)
          /\ Remember(s, "other")
          /\ UNCHANGED <<up, workDir, renameSrc, call>>
       \/ IsDir(p) /\ JustReply(s, ACTION_NOT_TAKEN)
       \/ (IsFile(p) \/ (~Exists(p) /\ ~ParentIsDir(p))) /\ Throw

SIZE(s, par) ==
  /\ Takes(s, par)
  /\ Exists(FTP2LocalPath(s, par))
  /\ AboutTo(s, "size", FTP2LocalPath(s, par), Root)

(* Nothing is there, or the data port is closed. *)
SIZERefused(s, par) ==
  /\ Takes(s, par)
  /\ JustReply(s, ACTION_NOT_TAKEN)

(* fs::file_size throws at anything but a file (with libstdc++). *)
fileSize(s) ==
  /\ up /\ call[s] # Nothing /\ call[s].op = "size"
  /\ \/ IsFile(call[s].src) /\ UNCHANGED tree /\ Made(s, FILE_STATUS)
     \/ ~IsFile(call[s].src) /\ Throw

-----------------------------------------------------------------------------

Look(s, par) ==
  \/ CWD(s, par) \/ CWDRefused(s, par)
  \/ RNFR(s, par) \/ RNTO(s, par) \/ RNTORefused(s, par)
  \/ DELE(s, par) \/ DELERefused(s, par)
  \/ RMD(s, par) \/ MKD(s, par)
  \/ SIZE(s, par) \/ SIZERefused(s, par)

Act(s) == rename(s) \/ remove(s) \/ fileSize(s)

FilesNext ==
  \E s \in LoggedIn :
    \/ PASS(s) \/ Other(s) \/ CDUP(s) \/ Act(s)
    \/ \E par \in Params : Look(s, par)

FilesSpec == FilesInit /\ [][FilesNext]_filesVars

-----------------------------------------------------------------------------
(* Properties of a session that is alone.  Those of RNTO and DELE fail as  *)
(* soon as another session acts between the look and the call.             *)

Files == {tree[p] : p \in Paths} \cap Contents
Makes(s, op) == call[s] # Nothing /\ call[s].op = op /\ call'[s] = Nothing

(* RNTO never overwrites a file: FTPSession.cpp:826, "We simple disallow   *)
(* overwriting a file be renaming".                                        *)
RenameKeepsFiles == [][(\E s \in LoggedIn : Makes(s, "rename")) => Files' = Files]_filesVars

(* DELE deletes no directory: FTPSession.cpp:860, "Resource is not a       *)
(* file".                                                                  *)
DeleteSparesDirectories ==
  [][(\E s \in LoggedIn : Makes(s, "remove"))
       => \A p \in Paths : IsDir(p) => IsDir(p)']_filesVars

(* A command that is refused has changed neither the tree nor the working  *)
(* directory nor what is to be renamed.                                    *)
RefusedChangesNothing ==
  [][\A s \in LoggedIn : reply'[s] # reply[s] /\ reply'[s] \in Refusals
       => UNCHANGED <<tree, workDir, renameSrc>>]_filesVars

=============================================================================

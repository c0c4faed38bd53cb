------------------------------- MODULE Journal -------------------------------
(***************************************************************************)
(* The patch journal of one machine of jshack.me: the rows every writer    *)
(* keeps on its files, the requests that write and remove them, the log    *)
(* lines the system appends, and the operator's guardian.                  *)
(*                                                                         *)
(* A row is keyed (path, writer_key) and stamped by the server as it lands; *)
(* a reader replays the rows of all writers over the generated tree, oldest *)
(* first.  A request is a sequence of database calls, and requests         *)
(* interleave.  A file's content is the sequence of the stamps its lines   *)
(* were written at, so no two writes write the same line.                  *)
(***************************************************************************)
EXTENDS Naturals, Sequences, FiniteSets

CONSTANTS
  Players,    \* public keys
  Owner,      \* the player whose workstation the machine is, or None
  Network,    \* the key an ownerless machine's own rows are filed under
  Paths,      \* the paths anybody writes
  Above,      \* the directories above each path
  Like,       \* the paths LIKE 'path/%' matches: those beneath it, and more where
              \* the path holds a wildcard
  Log,        \* the log the system records on
  Generated,  \* the tree the world generates for the machine
  Workers,    \* request slots (the bound on concurrent requests)
  MaxWrites,  \* bound: the rows written
  Calls,      \* the requests made in this instance
  None        \* nobody, no path; also NULL content

Writers == Players \cup {Network}
Rows == Paths \X Writers

\* Whose key a system line is filed under: the owner's, or the network's on a
\* machine nobody owns.
SystemKey == IF Owner = None THEN Network ELSE Owner

\* Whose doing a row is (history; no code reads it).  A hand's session is "old"
\* when it was opened before a restore swept the machine, and a request the
\* sweep overtook is "caught".
Hands == {"owner", "old", "new", "caught"}

Beneath(p) == {q \in Paths : p \in Above[q]}

Absent == [kind |-> "absent", text |-> <<>>]
Folder == [kind |-> "folder", text |-> <<>>]
File(text) == [kind |-> "file", text |-> text]
Node == [kind : {"absent", "folder", "file"}, text : Seq(Nat)]

ASSUME WritersAssumption == Network \notin Players /\ Owner \in Players \cup {None}
ASSUME PathsAssumption ==
  /\ Log \in Paths
  /\ Above \in [Paths -> SUBSET Paths]
  /\ \A p \in Paths : p \notin Above[p] /\ \A q \in Above[p] : Above[q] \subseteq Above[p]
  /\ Like \in [Paths -> SUBSET Paths] /\ \A p \in Paths : Beneath(p) \subseteq Like[p]
  /\ Generated \in [Paths -> {Absent, Folder, File(<<>>)}]
  /\ \A p \in Paths : Generated[p] # Absent => \A q \in Above[p] : Generated[q] = Folder
ASSUME BoundsAssumption == MaxWrites \in Nat /\ IsFiniteSet(Workers)
ASSUME NoneAssumption == None \notin Writers \cup Paths \cup Hands /\ None \notin Seq(Nat)

VARIABLES
  journal,   \* the patches rows of the machine, by path and writer
  clock,     \* the stamp of the newest row ever written
  shells,    \* each player's session on the machine: none, or since when
  calls,     \* the request each worker is serving
  guardian,  \* where the operator's one command stands
  removed,   \* history: the stamp of the last acknowledged removal of a path
  touched    \* history: the clock when anyone but the system last changed a row

vars == <<journal, clock, shells, calls, guardian, removed, touched>>

Row == [stamp : Nat, node : {"file", "directory"}, text : {None} \cup Seq(Nat),
        by : Hands \cup {"system", "guardian"}]

NoRow == [stamp |-> 0, node |-> "file", text |-> None, by |-> "system"]

Steps == {"idle", "lock", "append", "edit", "check", "write", "mkdir",
          "delete", "descend", "mark"}

Call == [step : Steps, player : Players \cup {None}, path : Paths \cup {None},
         base : Seq(Nat), new : BOOLEAN, hand : Hands \cup {None}]

NoCall == [step |-> "idle", player |-> None, path |-> None, base |-> <<>>,
           new |-> FALSE, hand |-> None]

Init ==
  /\ journal = [r \in Rows |-> NoRow]
  /\ clock = 0
  /\ shells = [p \in Players |-> "closed"]
  /\ calls = [w \in Workers |-> NoCall]
  /\ guardian = [step |-> "ready", base |-> <<>>]
  /\ removed = [p \in Paths |-> 0]
  /\ touched = 0

-----------------------------------------------------------------------------
(* What a reader sees: the rows replayed over the generated tree.          *)

\* A node put at a path: what is not a directory above it becomes one, and a
\* file that takes a directory's place takes its entries with it.
InsertNode(tree, p, node) ==
  [q \in Paths |-> IF q = p THEN node
                  ELSE IF q \in Above[p] THEN Folder
                  ELSE IF p \in Above[q] THEN Absent
                  ELSE tree[q]]

RemoveNode(tree, p) == [q \in Paths |-> IF q = p \/ p \in Above[q] THEN Absent ELSE tree[q]]

\* Mutant: a directory row is applied over whatever stands at its path.
ApplyOneEagerly(tree, p, row) ==
  IF row.node = "directory" THEN InsertNode(tree, p, Folder)
  ELSE IF row.text = None THEN RemoveNode(tree, p)
  ELSE InsertNode(tree, p, File(row.text))

\* A directory row changes nothing where something already stands (or only its
\* permissions); a row without content removes; any other row is a file.
ApplyOne(tree, p, row) ==
  IF row.node = "directory"
    THEN IF tree[p].kind = "absent" THEN InsertNode(tree, p, Folder) ELSE tree
  ELSE IF row.text = None THEN RemoveNode(tree, p)
  ELSE InsertNode(tree, p, File(row.text))

\* The row stamped n, if one still stands, applied: no two carry one stamp, as
\* each is stamped clock_timestamp() at its write.
Land(tree, n) ==
  IF \E r \in Rows : journal[r].stamp = n
    THEN LET r == CHOOSE r \in Rows : journal[r].stamp = n IN ApplyOne(tree, r[1], journal[r])
    ELSE tree

Replay == LET trees[n \in 0 .. clock] == IF n = 0 THEN Generated ELSE Land(trees[n - 1], n)
          IN trees

Shown == Replay[clock]

\* The newest row at one path, across its writers, if there is any.
Latest(p) ==
  {x \in Writers : /\ journal[<<p, x>>].stamp > 0
                   /\ \A y \in Writers : journal[<<p, y>>].stamp <= journal[<<p, x>>].stamp}

-----------------------------------------------------------------------------
(* The database calls.                                                     *)

\* INSERT ... ON CONFLICT (machine_id, path, writer_key) DO UPDATE, stamped now.
Upsert(p, x, node, text, by) ==
  /\ journal' = [journal EXCEPT ![<<p, x>>] =
                   [stamp |-> clock + 1, node |-> node, text |-> text, by |-> by]]
  /\ clock' = clock + 1
  /\ touched' = IF by = "system" THEN touched ELSE clock + 1

Delete(which) ==
  /\ journal' = [r \in Rows |-> IF r \in which THEN NoRow ELSE journal[r]]
  /\ touched' = clock

\* Every request in flight, and the guardian, may still write one row.
Pending == Cardinality({w \in Workers : calls[w].step # "idle"})
             + (IF guardian.step \in {"wipe", "clean", "round"} THEN 1 ELSE 0)
MayWrite == clock + Pending < MaxWrites

Begin(w, call) == calls[w].step = "idle" /\ MayWrite /\ calls' = [calls EXCEPT ![w] = call]
Goto(w, step) == calls' = [calls EXCEPT ![w].step = step]
Done(w) == calls' = [calls EXCEPT ![w] = NoCall]

\* authorizeMachineAccess: the machine is the caller's own, or the caller has an
\* open session on it.  What tier the login had (the write permission check that
\* follows) is left free: a refused request changes nothing.
Authorized(p) == p = Owner \/ shells[p] # "closed"
HandOf(p) == IF p = Owner THEN "owner" ELSE shells[p]

Request(w, step, p, path) ==
  /\ Authorized(p)
  /\ Begin(w, [NoCall EXCEPT !.step = step, !.player = p, !.path = path,
                 !.hand = HandOf(p)])

-----------------------------------------------------------------------------
(* Sessions, as far as they decide who may write here (module Sessions).   *)

OpenShell(p) ==
  /\ shells[p] = "closed" /\ p # Owner
  /\ shells' = [shells EXCEPT ![p] =
       IF guardian.step \in {"wipe", "clean", "restored"} THEN "new" ELSE "old"]
  /\ UNCHANGED <<journal, clock, calls, guardian, removed, touched>>

CloseShell(p) ==
  /\ shells[p] # "closed"
  /\ shells' = [shells EXCEPT ![p] = "closed"]
  /\ UNCHANGED <<journal, clock, calls, guardian, removed, touched>>

-----------------------------------------------------------------------------
(* A system line: append_machine_log.                                      *)

StartAppend(w) ==
  /\ "log" \in Calls
  /\ Begin(w, [NoCall EXCEPT !.step = "lock"])
  /\ UNCHANGED <<journal, clock, shells, guardian, removed, touched>>

\* The log as the function reads it: the newest row at the path, no content
\* (a deletion marker, or no row) reading as an empty log.
LogRead == IF \E x \in Latest(Log) : journal[<<Log, x>>].text # None
             THEN journal[<<Log, CHOOSE x \in Latest(Log) : TRUE>>].text
             ELSE <<>>

\* Mutant: the read does not wait for the append in flight.
ReadLogUnlocked(w) ==
  /\ calls[w].step = "lock"
  /\ calls' = [calls EXCEPT ![w].step = "append", ![w].base = LogRead]
  /\ UNCHANGED <<journal, clock, shells, guardian, removed, touched>>

\* Mutant: a deletion marker's NULL is taken for the log's content.
ReadLogRaw(w) ==
  /\ calls[w].step = "lock"
  /\ \A v \in Workers : calls[v].step # "append"
  /\ calls' = [calls EXCEPT ![w].step = "append",
                 ![w].base = IF Latest(Log) = {} THEN <<>>
                             ELSE journal[<<Log, CHOOSE x \in Latest(Log) : TRUE>>].text]
  /\ UNCHANGED <<journal, clock, shells, guardian, removed, touched>>

\* The lock on the log's path, held to the end of the transaction, then the read.
ReadLog(w) ==
  /\ calls[w].step = "lock"
  /\ \A v \in Workers : calls[v].step # "append"
  /\ calls' = [calls EXCEPT ![w].step = "append", ![w].base = LogRead]
  /\ UNCHANGED <<journal, clock, shells, guardian, removed, touched>>

AppendLog(w) ==
  /\ calls[w].step = "append"
  /\ Upsert(Log, SystemKey, "file", Append(calls[w].base, clock + 1), "system")
  /\ Done(w)
  /\ UNCHANGED <<shells, guardian, removed>>

-----------------------------------------------------------------------------
(* Writes: upsertPatch.                                                    *)

\* A player opens a file in the editor, or a script reads the one it will append
\* to: what they are shown is the base their save names.
OpenEditor(w, p, path) ==
  /\ "edit" \in Calls
  /\ Authorized(p)
  /\ Begin(w, [NoCall EXCEPT !.step = "edit", !.player = p, !.path = path,
                 !.base = Shown[path].text])
  /\ Shown[path].kind # "folder"
  /\ UNCHANGED <<journal, clock, shells, guardian, removed, touched>>

\* The save is sent, and let in or refused.  It says the file is new when the
\* client's tree, which may be older than the journal, shows none.
SaveEditor(w) ==
  LET p == calls[w].player IN
  /\ calls[w].step = "edit"
  /\ IF Authorized(p)
       THEN \E new \in BOOLEAN :
              calls' = [calls EXCEPT ![w].step = "check", ![w].hand = HandOf(p), ![w].new = new]
       ELSE Done(w)
  /\ UNCHANGED <<journal, clock, shells, guardian, removed, touched>>

\* The newest row holds what the author was shown: no row at all does, a row
\* without content does for a file the author takes for new.
StillHoldsWhatTheAuthorSaw(call) ==
  \A x \in Latest(call.path) :
    LET text == journal[<<call.path, x>>].text
    IN IF text = None THEN call.new ELSE text = call.base

\* rejectModifiedSinceOpen
CheckBase(w) ==
  /\ calls[w].step = "check"
  /\ IF StillHoldsWhatTheAuthorSaw(calls[w]) THEN Goto(w, "write") ELSE Done(w)
  /\ UNCHANGED <<journal, clock, shells, guardian, removed, touched>>

\* A redirect or a touch names no base and is not checked.  Here and below, what
\* the client's commands refuse is left free: they look at a tree as old as the
\* client's last read of the journal.
Redirect(w, p, path) ==
  /\ "write" \in Calls
  /\ Request(w, "write", p, path)
  /\ UNCHANGED <<journal, clock, shells, guardian, removed, touched>>

\* The file is left empty, or holding a line of the author's.
WriteFile(w) ==
  LET call == calls[w] IN
  /\ call.step = "write"
  /\ \E text \in {<<>>, <<clock + 1>>} : Upsert(call.path, call.player, "file", text, call.hand)
  /\ Done(w)
  /\ UNCHANGED <<shells, guardian, removed>>

\* mkdir, or a chmod of a directory: one row.
MakeDirectory(w, p, path) ==
  /\ "mkdir" \in Calls
  /\ Request(w, "mkdir", p, path)
  /\ UNCHANGED <<journal, clock, shells, guardian, removed, touched>>

WriteDirectory(w) ==
  LET call == calls[w] IN
  /\ call.step = "mkdir"
  /\ Upsert(call.path, call.player, "directory", None, call.hand)
  /\ Done(w)
  /\ UNCHANGED <<shells, guardian, removed>>

-----------------------------------------------------------------------------
(* Removals: removePatch.                                                  *)

\* rm, rm -r.
StartRemove(w, p, path) ==
  /\ "remove" \in Calls
  /\ Request(w, "delete", p, path)
  /\ UNCHANGED <<journal, clock, shells, guardian, removed, touched>>

\* Mutant: the delete is not kept to the caller's writer_key.
DeleteEveryRow(w) ==
  /\ calls[w].step = "delete"
  /\ Delete({calls[w].path} \X Writers)
  /\ Goto(w, "descend")
  /\ UNCHANGED <<clock, shells, guardian, removed>>

\* deletePatchTree, first half: the caller's own row.
DeleteRow(w) ==
  /\ calls[w].step = "delete"
  /\ Delete({<<calls[w].path, calls[w].player>>})
  /\ Goto(w, "descend")
  /\ UNCHANGED <<clock, shells, guardian, removed>>

\* Second half: the caller's own rows the pattern matches.
DeleteDescendants(w) ==
  /\ calls[w].step = "descend"
  /\ Delete(Like[calls[w].path] \X {calls[w].player})
  /\ Goto(w, "mark")
  /\ UNCHANGED <<clock, shells, guardian, removed>>

\* The deletion marker names no node_type, so a row put back meanwhile keeps its own.
Tombstone(w) ==
  LET call == calls[w] IN
  /\ call.step = "mark"
  /\ Upsert(call.path, call.player, journal[<<call.path, call.player>>].node, None, call.hand)
  /\ removed' = [removed EXCEPT ![call.path] = clock + 1]
  /\ Done(w)
  /\ UNCHANGED <<shells, guardian>>

\* The request dies between two of its calls, and what it wrote stays written.
\* One that dies before it wrote anything or took the lock leaves no trace.
Fail(w) ==
  /\ "fail" \in Calls
  /\ calls[w].step \in {"append", "descend", "mark"}
  /\ Done(w)
  /\ UNCHANGED <<journal, clock, shells, guardian, removed, touched>>

-----------------------------------------------------------------------------
(* The operator's guardian, on a machine nobody owns.                      *)

\* Mutant: the sessions on the box are left open.
SweepNobody ==
  /\ "restore" \in Calls /\ Owner = None
  /\ guardian.step = "ready" /\ MayWrite
  /\ guardian' = [guardian EXCEPT !.step = "wipe"]
  /\ calls' = [w \in Workers |->
       IF calls[w].hand = "old" THEN [calls[w] EXCEPT !.hand = "caught"] ELSE calls[w]]
  /\ UNCHANGED <<journal, clock, shells, removed, touched>>

\* restore, 1: every open session on the box ends.
SweepSessions ==
  /\ "restore" \in Calls /\ Owner = None
  /\ guardian.step = "ready" /\ MayWrite
  /\ guardian' = [guardian EXCEPT !.step = "wipe"]
  /\ shells' = [p \in Players |-> "closed"]
  /\ calls' = [w \in Workers |->
       IF calls[w].hand = "old" THEN [calls[w] EXCEPT !.hand = "caught"] ELSE calls[w]]
  /\ UNCHANGED <<journal, clock, removed, touched>>

\* 2: its whole journal goes.
EmptyJournal ==
  /\ guardian.step = "wipe"
  /\ Delete(Rows)
  /\ guardian' = [guardian EXCEPT !.step = "clean"]
  /\ UNCHANGED <<clock, shells, calls, removed>>

\* 3: the clean box is written, its passwd lines on an empty log.  The manifest,
\* the passwords and the boot marker are at paths nothing here reads.
WriteCleanBox ==
  /\ guardian.step = "clean"
  /\ Upsert(Log, Network, "file", <<clock + 1>>, "guardian")
  /\ guardian' = [guardian EXCEPT !.step = "restored"]
  /\ UNCHANGED <<shells, calls, removed>>

\* patch: the journal is read, and the log written back with the passwd lines on it.
ReadRound ==
  /\ "round" \in Calls /\ Owner = None
  /\ guardian.step = "ready" /\ MayWrite
  /\ guardian' = [step |-> "round", base |-> Shown[Log].text]
  /\ UNCHANGED <<journal, clock, shells, calls, removed, touched>>

WriteRound ==
  /\ guardian.step = "round"
  /\ Upsert(Log, Network, "file", Append(guardian.base, clock + 1), "guardian")
  /\ guardian' = [step |-> "done", base |-> <<>>]
  /\ UNCHANGED <<shells, calls, removed>>

-----------------------------------------------------------------------------
Continue(w) ==
  \/ ReadLog(w) \/ AppendLog(w)
  \/ SaveEditor(w) \/ CheckBase(w) \/ WriteFile(w) \/ WriteDirectory(w)
  \/ DeleteRow(w) \/ DeleteDescendants(w) \/ Tombstone(w)

Start(w, p, path) ==
  \/ OpenEditor(w, p, path) \/ Redirect(w, p, path)
  \/ MakeDirectory(w, p, path) \/ StartRemove(w, p, path)

Guardian == SweepSessions \/ EmptyJournal \/ WriteCleanBox \/ ReadRound \/ WriteRound

Next ==
  \/ \E p \in Players : OpenShell(p) \/ CloseShell(p)
  \/ \E w \in Workers : StartAppend(w) \/ Continue(w) \/ Fail(w)
  \/ \E w \in Workers, p \in Players, path \in Paths : Start(w, p, path)
  \/ Guardian

Spec == Init /\ [][Next]_vars

-----------------------------------------------------------------------------
(* Types.                                                                  *)

TypeOK ==
  /\ journal \in [Rows -> Row]
  /\ clock \in Nat
  /\ shells \in [Players -> {"closed", "old", "new"}]
  /\ calls \in [Workers -> Call]
  /\ guardian \in [step : {"ready", "wipe", "clean", "restored", "round", "done"},
                   base : Seq(Nat)]
  /\ removed \in [Paths -> Nat]
  /\ touched \in Nat

-----------------------------------------------------------------------------
(* What the journal promises.                                              *)

\* A row written at a path after a file landed there leaves the file in nobody's
\* sight: it removes the file or a directory above it, puts a file where one of
\* those directories stood, or needs a directory where the file stands.
Hides(q, r) ==
  IF journal[r].node = "directory" THEN q \in Above[r[1]]
  ELSE IF journal[r].text = None THEN q = r[1] \/ r[1] \in Above[q]
  ELSE q \in Above[r[1]] \/ r[1] \in Above[q]

Outlives(q, stamp) == \A r \in Rows : journal[r].stamp > stamp => ~Hides(q, r)

\* The replay shows a file exactly when its newest write outlives every row since,
\* with the content that write gave it: last write wins, whoever wrote, and a
\* directory made over a path takes nothing away.
LastWriteWins ==
  LET shown == Shown IN
  \A q \in Paths :
    LET files == {x \in Writers : journal[<<q, x>>].node = "file" /\ journal[<<q, x>>].text # None}
        newest == {x \in files : \A y \in files : journal[<<q, y>>].stamp <= journal[<<q, x>>].stamp}
    IN IF \E x \in newest : Outlives(q, journal[<<q, x>>].stamp)
         THEN shown[q] = File(journal[<<q, CHOOSE x \in newest : TRUE>>].text)
         ELSE shown[q].kind = "file" => files = {} /\ shown[q] = Generated[q] /\ Outlives(q, 0)

\* The lines the system landed since anyone else last changed a row are the end
\* of a text, each once and in order.
EndsInLines(text) ==
  LET lines == clock - touched
  IN /\ Len(text) >= lines
     /\ \A i \in 1 .. lines : text[Len(text) - lines + i] = touched + i

\* Parallel appends queue and none drops a line, as a player reads the log:
\* append_machine_log.
EveryLineLands == EndsInLines(Shown[Log].text)

\* All edits stay attributed: a player's row is rewritten or deleted by that
\* player's own requests, by the system where the key is also its own, and by
\* the operator who empties the journal.
OnlyItsWriterTouchesARow ==
  [][\A p \in Paths, x \in Players \ {SystemKey} :
       journal'[<<p, x>>] # journal[<<p, x>>]
       => \/ guardian.step = "wipe" /\ guardian'.step = "clean"
          \/ \E w \in Workers : calls[w].player = x /\ calls'[w] # calls[w]]_vars

\* A restored box holds no row of a shell that stood on the old one, but for a
\* request the sweep overtook after it was let in.
RestoreLeavesNoOldHand ==
  guardian.step \in {"clean", "restored"}
  => \A r \in Rows : journal[r].stamp > 0 => journal[r].by # "old"

-----------------------------------------------------------------------------
(* What comments in the code say of the journal, and TLC refutes.          *)

\* removePatch.ts: a stale child row can't resurrect part of a removed subtree;
\* append_machine_log: a wiped log stays wiped.  No line a reader sees at or
\* beneath a path is older than the last acknowledged removal of the path.
RemovedStaysRemoved ==
  LET shown == Shown IN
  \A q \in Paths : \A p \in {q} \cup Above[q] :
    \A i \in DOMAIN shown[q].text : shown[q].text[i] > removed[p]
=============================================================================

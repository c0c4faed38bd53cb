------------------------------ MODULE Terminal ------------------------------
(***************************************************************************)
(* One browser tab of the game: the stack of shells it stands in, the tree *)
(* it shows, the boot id each shell read when it walked in, and the rows   *)
(* the server keeps for them, across lines, hops, reboots and reloads.     *)
(*                                                                         *)
(* Lines run one after another (commandChain), but what a hop starts runs  *)
(* on beside them: the row of an own-box shell is created and every row is *)
(* ended without waiting, and each tree is pulled without waiting, so the  *)
(* answers come in any order, late or never; and the rebuild after a       *)
(* reload is of no line's chain and may land in the middle of one.  Other  *)
(* requests end rows and reboot boxes, the player's own too (Sessions).    *)
(* The base login is the empty stack.                                      *)
(***************************************************************************)
EXTENDS Naturals, Sequences, FiniteSets

CONSTANTS
  Others,      \* the boxes that are not the player's own
  Home,        \* the player's workstation
  Marker,      \* the boot id on it, 0 when it never rebooted
  MaxSessions, \* bound: the sessions this tab opens
  MaxMishaps,  \* bound: reboots of any box and reloads of the tab, together
  None         \* no session, no tree, nothing read

Boxes == Others \cup {Home}
Ids == 1..MaxSessions

ASSUME HomeAssumption == Home \notin Others /\ Marker \in Nat
ASSUME BoundsAssumption == MaxSessions \in Nat /\ MaxMishaps \in Nat
ASSUME NoneAssumption == None \notin Nat /\ None \notin Boxes

VARIABLES
  box,     \* where each session will stand
  kind,    \* and whether it is a hop or a parallel session
  opened,  \* how many were minted
  stack,   \* the pushed sessions, the shell in use last
  ftp,     \* the parallel session held beside it
  stamp,   \* the boot id each session holds, None before it read one
  tree,    \* the tree in hand: its box and the boot id on it
  pulls,   \* trees asked for: by which shell, of which box, for a line or not,
           \* and the boot id on the box then
  phase,   \* how far the line in hand is
  chain,   \* the shells it was typed in, the one it runs in last
  mine,    \* the boot id that one held when the line began
  view,    \* the boot id on the tree the line runs over, None with no tree
  lost,    \* how many of its shells the server no longer held open
  listing, \* how far the rebuild after a reload is
  listed,  \* the sessions it was told are open
  row,     \* each session's row
  born,    \* its created_at, as a rank
  posts,   \* the creates and ends on their way
  boot,    \* the boot id on each box
  swept,   \* the boxes whose rows a reboot has ended, the marker to come
  reboots, \* how many reboots began
  reloads, \* how often the tab was reloaded
  arrived, \* the boot id on the box when the row was inserted
  loaded,  \* the boot id on the own box when the page was loaded
  blind,   \* the sessions that stamped what no tree of their box told them
  evicted, \* whether a shell of the line had ended when its chain was read, and the
           \* server answers
  late,    \* whether the lowest it lost was one whose create had not landed
  replaced \* whether a rebuild landed under the line

fates == <<box, kind>>
shell == <<opened, stack, ftp, stamp, blind>>
checks == <<mine, view, lost, late, replaced>>
line == <<phase, chain, checks, evicted>>
page == <<listing, listed, reloads, loaded>>
server == <<row, born, arrived>>
world == <<boot, swept, reboots>>
vars == <<box, kind, opened, stack, ftp, stamp, tree, pulls, phase, chain, mine, view, lost,
          listing, listed, row, born, posts, boot, swept, reboots, reloads, arrived, loaded,
          blind, evicted, late, replaced>>

Init ==
  /\ box \in [Ids -> Boxes]
  /\ kind \in [Ids -> {"hop", "ftp"}]
  /\ \A s \in Ids : kind[s] = "ftp" => box[s] # Home
  /\ opened = 0
  /\ stack = <<>> /\ ftp = None
  /\ stamp = [s \in Ids |-> None]
  /\ tree = None
  /\ pulls = {[by |-> None, box |-> Home, line |-> FALSE, since |-> Marker]}
  /\ phase = "idle" /\ chain = <<>> /\ mine = None /\ view = None /\ lost = 0
  /\ listing = "none" /\ listed = {}
  /\ row = [s \in Ids |-> "none"]
  /\ born = [s \in Ids |-> 0]
  /\ posts = {}
  /\ boot = [b \in Boxes |-> IF b = Home THEN Marker ELSE 0]
  /\ swept = {} /\ reboots = 0 /\ reloads = 0
  /\ arrived = [s \in Ids |-> 0] /\ loaded = Marker
  /\ blind = {} /\ evicted = FALSE /\ late = FALSE /\ replaced = FALSE

-----------------------------------------------------------------------------
Entered(st) == IF st = <<>> THEN None ELSE st[Len(st)]
On(st) == IF st = <<>> THEN Home ELSE box[st[Len(st)]]
Legs(st) == {st[i] : i \in 1..Len(st)}

\* activeRoot shows the tree in hand only on the box it is of.
Shown(tr, st) == IF tr # None /\ tr.box = On(st) THEN tr.boot ELSE None
ReadBootId(v) == IF v = None THEN 0 ELSE v

\* observeBootId over the stack st: the session as the caller holds it, with the boot id
\* known on it, is stamped in the stack from whatever tree is shown, the first time it
\* looks.  What a popped session held is gone with it.
Observe(s, known, tr, st) ==
  LET reads == s \in Legs(st) /\ known = None
      seen == Shown(tr, st)
  IN
  /\ stamp' = [i \in Ids |-> IF i \notin Legs(st) THEN None
                             ELSE IF reads /\ i = s THEN ReadBootId(seen) ELSE stamp[i]]
  /\ blind' = {i \in Legs(st) : IF reads /\ i = s THEN seen = None \/ On(st) # box[s]
                                  ELSE i \in blind}

\* And what the caller holds after it.
Known(s, known, tr, st) ==
  IF s = None \/ known # None \/ st = <<>> THEN known ELSE ReadBootId(Shown(tr, st))

Held(st) == IF st = <<>> THEN None ELSE stamp[Entered(st)]

\* acquireTree, for the shell in use.
ObserveBootId(tr, st) == Observe(Entered(st), Held(st), tr, st)

Pull(st, forLine) ==
  [by |-> Entered(st), box |-> On(st), line |-> forLine, since |-> boot[On(st)]]

\* rebindPatchClient as the stack goes from one state to the next of a path,
\* synchronously: the own box's journal is cleared when the machine changes and
\* a served tree when the player comes home, and each state pulls its own tree.
\* A shell on the box it was opened from at home has its tree already.
Rebind(tr, path) ==
  LET n == Len(path)
      crosses(i) == (On(path[i]) = Home) # (On(path[i + 1]) = Home)
      home(i) == On(path[i]) = Home /\ On(path[i + 1]) = Home
      kept == IF \E i \in 1..n-1 : crosses(i) THEN None ELSE tr
  IN
  /\ stack' = path[n]
  /\ tree' = kept
  /\ pulls' = pulls \cup {Pull(path[i + 1], FALSE) : i \in {j \in 1..n-1 : ~home(j)}}
  /\ IF n > 1 /\ home(n - 1) THEN ObserveBootId(kept, path[n])
     ELSE Observe(None, None, kept, path[n])

\* popSession n times, which does nothing once only the base login is left.
Pop(n) ==
  LET k == IF n <= Len(stack) THEN Len(stack) - n ELSE 0 IN
  /\ Rebind(tree, [i \in 1..Len(stack) - k + 1 |-> SubSeq(stack, 1, Len(stack) - i + 1)])
  /\ posts' = posts \cup {<<"end", stack[i]>> : i \in k+1..Len(stack)}

NoChecks == mine' = None /\ view' = None /\ lost' = 0 /\ late' = FALSE /\ replaced' = FALSE

\* The line ends.
Prompt ==
  /\ phase' = "idle" /\ chain' = <<>> /\ evicted' = FALSE
  /\ NoChecks

\* Its command waits for something.
Await(p) ==
  /\ phase' = p /\ evicted' = FALSE
  /\ UNCHANGED <<chain, checks>>

\* What listSessions answers with.  It also ends rows that stand on ended ones,
\* as EndElsewhere may.
Open == {s \in Ids : row[s] = "open"}

-----------------------------------------------------------------------------
(* The server and the wire.  created_at is the insert's.                   *)
Insert(s) ==
  /\ row' = [row EXCEPT ![s] = "open"]
  /\ born' = [born EXCEPT ![s] = Cardinality({i \in Ids : row[i] # "none"}) + 1]
  /\ arrived' = [arrived EXCEPT ![s] = boot[box[s]]]

\* A create inserts; an end closes an open row and matches no other.  One that
\* never lands was lost: the adapter swallows the error.
Land(m) ==
  /\ posts' = posts \ {m}
  /\ IF m[1] = "create"
       THEN Insert(m[2])
       ELSE /\ row' = [row EXCEPT ![m[2]] = IF @ = "open" THEN "ended" ELSE @]
            /\ UNCHANGED <<born, arrived>>
  /\ UNCHANGED <<fates, shell, tree, pulls, line, page, world>>

\* Another request ends a row: a network left, a hop beneath lost, another tab.
EndElsewhere(s) ==
  /\ row[s] = "open"
  /\ row' = [row EXCEPT ![s] = "ended"]
  /\ UNCHANGED <<fates, shell, tree, pulls, line, page, born, arrived, posts, world>>

\* A reboot ends the rows on the box, and only then writes the new boot id.
Sweep(b) ==
  /\ b \notin swept /\ reboots + reloads < MaxMishaps
  /\ reboots' = reboots + 1
  /\ row' = [s \in Ids |-> IF row[s] = "open" /\ box[s] = b THEN "ended" ELSE row[s]]
  /\ swept' = swept \cup {b}
  /\ UNCHANGED <<fates, shell, tree, pulls, line, page, born, arrived, posts, boot>>

\* Mutant: a reboot clears the boot id away.
ClearBootId(b) ==
  /\ b \in swept
  /\ boot' = [boot EXCEPT ![b] = None]
  /\ swept' = swept \ {b}
  /\ UNCHANGED <<fates, shell, tree, pulls, line, page, server, posts, reboots>>

WriteBootId(b) ==
  /\ b \in swept
  /\ boot' = [boot EXCEPT ![b] = @ + 1]
  /\ swept' = swept \ {b}
  /\ UNCHANGED <<fates, shell, tree, pulls, line, page, server, posts, reboots>>

-----------------------------------------------------------------------------
(* Trees arriving.  A refresh shows its tree, or nothing when it failed,   *)
(* only if the shell still stands on that box; acquireTree then stamps     *)
(* only the shell that asked.                                              *)
Landed(p, seen) ==
  IF On(stack) # p.box THEN tree
  ELSE IF seen = None THEN None ELSE [box |-> p.box, boot |-> seen]

\* Mutant: a tree arriving arms whatever shell is in use.
ArriveForAnyShell(p, seen) ==
  /\ p \in pulls /\ ~p.line
  /\ pulls' = pulls \ {p}
  /\ tree' = Landed(p, seen)
  /\ ObserveBootId(tree', stack)
  /\ UNCHANGED <<fates, opened, stack, ftp, line, page, server, posts, world>>

Arrive(p, seen) ==
  /\ p \in pulls /\ ~p.line
  /\ pulls' = pulls \ {p}
  /\ tree' = Landed(p, seen)
  /\ IF p.by = Entered(stack) THEN ObserveBootId(tree', stack) ELSE UNCHANGED <<stamp, blind>>
  /\ UNCHANGED <<fates, opened, stack, ftp, line, page, server, posts, world>>

\* Two hops deep, or on another box, the server is asked.
AsksOf(st) == Len(st) >= 2 \/ On(st) # Home
Asks == AsksOf(chain)

\* The line's shells are the stack as it now stands, but for the one it was typed in; it
\* runs over the tree now shown.
Capture(st, cur, known, tr) ==
  /\ Observe(cur, known, tr, st)
  /\ mine' = Known(cur, known, tr, st)
  /\ chain' = IF cur = None THEN <<>>
              ELSE Append(IF st = <<>> THEN <<>> ELSE SubSeq(st, 1, Len(st) - 1), cur)
  /\ view' = Shown(tr, st)
  /\ evicted' = (AsksOf(chain') /\ \E s \in Legs(chain') : row[s] = "ended")
  /\ phase' = IF AsksOf(chain') \/ ftp # None THEN "asking" ELSE "heard"

\* The tree a line waits for before it runs.
LineArrives(p, seen) ==
  /\ p \in pulls /\ p.line /\ phase = "pulling"
  /\ pulls' = pulls \ {p}
  /\ tree' = Landed(p, seen)
  /\ Capture(stack, Entered(chain), mine, tree')
  /\ UNCHANGED <<fates, opened, stack, ftp, lost, late, replaced, page, server, posts, world>>

\* The tree a command pulls again after it wrote.
Refreshed(p, seen) ==
  /\ p \in pulls /\ p.line /\ phase = "refreshing"
  /\ pulls' = pulls \ {p}
  /\ tree' = Landed(p, seen)
  /\ Prompt
  /\ UNCHANGED <<fates, shell, page, server, posts, world>>

\* The box su reads again, which a read that fails leaves as it was.
Reread(p, seen) ==
  /\ p \in pulls /\ p.line /\ phase = "rereading"
  /\ pulls' = pulls \ {p}
  /\ tree' = IF seen = None THEN tree ELSE Landed(p, seen)
  /\ Await("su")
  /\ UNCHANGED <<fates, shell, page, server, posts, world>>

Comes(p, seen) ==
  Arrive(p, seen) \/ LineArrives(p, seen) \/ Refreshed(p, seen) \/ Reread(p, seen)

\* The answer is what the box carried at some moment since it was asked.
Answered == \E p \in pulls : \E seen \in p.since..boot[p.box] : Comes(p, seen)
Failed == \E p \in pulls : Comes(p, None)

-----------------------------------------------------------------------------
(* executeLine, up to the command.  needsFreshTree: a line on another box  *)
(* waits for its tree.                                                     *)
Type ==
  /\ phase = "idle"
  /\ IF On(stack) # Home
       THEN /\ pulls' = pulls \cup {Pull(stack, TRUE)}
            /\ phase' = "pulling" /\ chain' = stack /\ mine' = Held(stack)
            /\ UNCHANGED <<stamp, blind, view, evicted>>
       ELSE Capture(stack, Entered(stack), Held(stack), tree) /\ UNCHANGED pulls
  /\ UNCHANGED <<fates, opened, stack, ftp, tree, lost, late, replaced, page, server,
                 posts, world>>

\* Mutant: only the shell in use is looked for.
StandingOnTop(open, n) ==
  n = IF chain # <<>> /\ Entered(chain) \notin open THEN Len(chain) - 1 ELSE Len(chain)

\* The n lowest shells are open and the next is not: from that one up all are lost.
Standing(open, n) ==
  /\ \A i \in 1..n : chain[i] \in open
  /\ n < Len(chain) => chain[n + 1] \notin open

\* The listing as the server reads it; the answer is then on its way.
Heard ==
  /\ phase = "asking" /\ ftp = None /\ Asks
  /\ \E n \in 0..Len(chain) :
       /\ Standing(Open, n)
       /\ lost' = Len(chain) - n
       /\ late' = (n < Len(chain) /\ row[chain[n + 1]] = "none")
  /\ phase' = "heard"
  /\ UNCHANGED <<fates, shell, tree, pulls, chain, mine, view, evicted, replaced, page, server,
                 posts, world>>

\* The answer does not come.
Unheard ==
  /\ phase = "asking" /\ ftp = None
  /\ phase' = "heard" /\ evicted' = FALSE
  /\ UNCHANGED <<fates, shell, tree, pulls, chain, checks, page, server, posts, world>>

\* bootIdMoved: the tree the line runs over disagrees with what its shell held.
Moved == mine # None /\ mine # ReadBootId(view)

\* runCommandLine's two checks: the line's shells, and the box.  What is popped is the
\* stack as it stands when the answer is in.
Judge ==
  /\ phase = "heard"
  /\ \/ lost > 0 /\ Pop(lost) /\ Prompt
     \/ lost = 0 /\ Moved /\ Pop(1) /\ Prompt
     \/ /\ lost = 0 /\ ~Moved
        /\ phase' = "running" /\ NoChecks
        /\ UNCHANGED <<stack, stamp, blind, tree, pulls, posts, chain, evicted>>
  /\ UNCHANGED <<fates, opened, ftp, page, server, world>>

\* The ftp prompt asks only about its own row.
HearFtp ==
  /\ phase = "asking" /\ ftp # None
  /\ \/ /\ row[ftp] # "open"
        /\ ftp' = None /\ posts' = posts \cup {<<"end", ftp>>}
        /\ Prompt
     \/ /\ phase' = "ftp" /\ NoChecks
        /\ UNCHANGED <<ftp, posts, chain, evicted>>
  /\ UNCHANGED <<fates, opened, stack, stamp, blind, tree, pulls, page, server, world>>

-----------------------------------------------------------------------------
(* The commands.                                                           *)
\* One that changes nothing here, or whose write fails.
Plain ==
  /\ phase \in {"running", "ftp", "writing"}
  /\ Prompt
  /\ UNCHANGED <<fates, shell, tree, pulls, page, server, posts, world>>

\* A write, a log line (a refused su leaves one) or a reboot is waited for.
Write ==
  /\ phase \in {"running", "ftp", "su"}
  /\ Await("writing")
  /\ UNCHANGED <<fates, shell, tree, pulls, page, server, posts, world>>

\* And then the tree of the box the shell in use stands on.
Refetch ==
  /\ phase = "writing"
  /\ pulls' = pulls \cup {Pull(stack, TRUE)}
  /\ Await("refreshing")
  /\ UNCHANGED <<fates, shell, tree, page, server, posts, world>>

\* leaveRebootedBox: the shells of the line's chain on the box that went down, from the
\* top.
StepOff ==
  LET here(i) == box[chain[i]] = On(chain) IN
  /\ phase = "writing" /\ ftp = None
  /\ \E k \in 0..Len(chain) :
       /\ \A i \in k+1..Len(chain) : here(i)
       /\ k > 0 => ~here(k)
       /\ Pop(Len(chain) - k)
  /\ Prompt
  /\ UNCHANGED <<fates, opened, ftp, page, server, world>>

Exit ==
  /\ phase = "running" /\ chain # <<>>
  /\ Pop(1)
  /\ Prompt
  /\ UNCHANGED <<fates, opened, ftp, page, server, world>>

Quit ==
  /\ phase = "ftp"
  /\ ftp' = None /\ posts' = posts \cup {<<"end", ftp>>}
  /\ Prompt
  /\ UNCHANGED <<fates, opened, stack, stamp, blind, tree, pulls, page, server, world>>

\* su, or an ssh to the own sshd, at home: the box is read again, the password asked
\* for, the shell pushed, its row created beside it and the switch logged.
Reads ==
  LET s == opened + 1 IN
  /\ phase = "running" /\ s \in Ids /\ box[s] = Home /\ On(chain) = Home
  /\ pulls' = pulls \cup {Pull(stack, TRUE)}
  /\ Await("rereading")
  /\ UNCHANGED <<fates, shell, tree, page, server, posts, world>>

PushSu ==
  LET s == opened + 1 IN
  /\ phase = "su" /\ s \in Ids /\ box[s] = Home
  /\ opened' = s
  /\ Rebind(tree, <<stack, Append(stack, s)>>)
  /\ posts' = posts \cup {<<"create", s>>}
  /\ Await("writing")
  /\ UNCHANGED <<fates, ftp, page, server, world>>

\* A login to another box, or su on one: the server is asked first.
Login ==
  LET s == opened + 1 IN
  /\ phase = "running" /\ s \in Ids /\ box[s] # Home
  /\ opened' = s
  /\ Await("login")
  /\ UNCHANGED <<fates, stack, ftp, stamp, blind, tree, pulls, page, server, posts, world>>

\* The server admits a caller who stands on the box the login comes from.
Admit ==
  /\ phase = "login"
  /\ On(chain) = Home \/ \E s \in Open : box[s] = On(chain)
  /\ Insert(opened)
  /\ Await("admitted")
  /\ UNCHANGED <<fates, shell, tree, pulls, page, posts, world>>

Enter ==
  /\ phase = "admitted"
  /\ IF kind[opened] = "hop"
       THEN Rebind(tree, <<stack, Append(stack, opened)>>) /\ UNCHANGED ftp
       ELSE ftp' = opened /\ UNCHANGED <<stack, stamp, blind, tree, pulls>>
  /\ Prompt
  /\ UNCHANGED <<fates, opened, page, server, posts, world>>

\* Refused, given up, or the answer was lost: with the row there or not.
NoEntry ==
  /\ phase \in {"login", "admitted", "su"}
  /\ Prompt
  /\ UNCHANGED <<fates, shell, tree, pulls, page, server, posts, world>>

-----------------------------------------------------------------------------
(* A reload, and rehydrateSessions, which the player may type ahead of.    *)
Reload ==
  /\ reboots + reloads < MaxMishaps
  /\ reloads' = reloads + 1
  /\ stack' = <<>> /\ ftp' = None /\ tree' = None /\ blind' = {}
  /\ stamp' = [s \in Ids |-> None]
  /\ pulls' = {Pull(<<>>, FALSE)}
  /\ Prompt
  /\ listing' = "asked" /\ listed' = {} /\ loaded' = boot[Home]
  /\ UNCHANGED <<fates, opened, server, posts, world>>

\* An answer with no rows, or none at all, changes nothing.
Listed ==
  /\ listing = "asked"
  /\ \/ Open # {} /\ listing' = "read" /\ listed' = Open
     \/ listing' = "none" /\ UNCHANGED listed
  /\ UNCHANGED <<fates, shell, tree, pulls, line, server, posts, world, reloads, loaded>>

Hops(ids) == {s \in ids : kind[s] = "hop"}

\* The rebuilt stack replaces the one in use, and rebindPatchClient pulls the
\* tree of its last shell; none of its shells has read a boot id.
Resume(sorted) ==
  LET s == Entered(sorted)
      home == On(sorted) = Home
      atHome == home /\ On(stack) = Home
      read == atHome /\ s # None
  IN
  /\ stack' = sorted
  /\ tree' = IF home = (On(stack) = Home) THEN tree ELSE None
  /\ pulls' = IF atHome THEN pulls ELSE pulls \cup {Pull(sorted, FALSE)}
  /\ stamp' = [i \in Ids |-> IF read /\ i = s THEN ReadBootId(Shown(tree, sorted)) ELSE None]
  /\ blind' = IF read /\ Shown(tree, sorted) = None THEN {s} ELSE {}

\* It lands wherever a line waits for something.
Waiting ==
  /\ phase \notin {"running", "ftp"}
  /\ phase = "heard" => Asks

\* rehydrateSessionStack: the hops in the order of their created_at; what is
\* parallel was abandoned and is ended.
Rebuild ==
  /\ listing = "read" /\ Waiting
  /\ listing' = "none" /\ listed' = {}
  /\ \E sorted \in [1..Cardinality(Hops(listed)) -> Hops(listed)] :
       /\ \A i, j \in DOMAIN sorted : i < j => born[sorted[i]] < born[sorted[j]]
       /\ Resume(sorted)
  /\ posts' = posts \cup {<<"end", s>> : s \in listed \ Hops(listed)}
  /\ replaced' = (phase \in {"pulling", "asking", "heard"})
  /\ UNCHANGED <<fates, opened, ftp, phase, chain, mine, view, lost, late, evicted, server,
                 world, reloads, loaded>>

-----------------------------------------------------------------------------
Tab ==
  \/ Answered \/ Failed \/ Type \/ Heard \/ Unheard \/ Judge \/ HearFtp
  \/ Plain \/ Write \/ Refetch \/ StepOff \/ Exit \/ Quit
  \/ Reads \/ PushSu \/ Login \/ Enter \/ NoEntry
  \/ Reload \/ Listed \/ Rebuild

Elsewhere ==
  \/ \E m \in posts : Land(m)
  \/ Admit
  \/ \E s \in Ids : EndElsewhere(s)
  \/ \E b \in Boxes : Sweep(b) \/ WriteBootId(b)

Next == Tab \/ Elsewhere

Spec == Init /\ [][Next]_vars

-----------------------------------------------------------------------------
Phases == {"idle", "pulling", "asking", "heard", "running", "ftp", "writing", "refreshing",
           "rereading", "su", "login", "admitted"}

TypeOK ==
  /\ box \in [Ids -> Boxes] /\ kind \in [Ids -> {"hop", "ftp"}]
  /\ opened \in 0..MaxSessions
  /\ stack \in Seq(Ids) /\ ftp \in Ids \cup {None}
  /\ stamp \in [Ids -> Nat \cup {None}]
  /\ tree \in [box : Boxes, boot : Nat] \cup {None}
  /\ pulls \subseteq [by : Ids \cup {None}, box : Boxes, line : BOOLEAN, since : Nat]
  /\ phase \in Phases /\ chain \in Seq(Ids)
  /\ mine \in Nat \cup {None} /\ view \in Nat \cup {None} /\ lost \in Nat
  /\ listing \in {"none", "asked", "read"} /\ listed \subseteq Ids
  /\ row \in [Ids -> {"none", "open", "ended"}]
  /\ born \in [Ids -> Nat] /\ arrived \in [Ids -> Nat]
  /\ posts \subseteq {"create", "end"} \X Ids
  /\ boot \in [Boxes -> Nat] /\ swept \subseteq Boxes
  /\ reboots \in 0..MaxMishaps /\ reloads \in 0..MaxMishaps /\ loaded \in Nat
  /\ blind \subseteq Ids /\ evicted \in BOOLEAN
  /\ late \in BOOLEAN /\ replaced \in BOOLEAN

\* The boot id on a shell's box when it came to stand there.  Trees of the own box are
\* asked for by every shell there, from the page's load on.
Since(s) == IF box[s] = Home THEN loaded ELSE arrived[s]

\* What a shell takes for its box's boot id is one the box carried since the
\* shell was let in: no tree pulled for another shell, or before a reboot, arms
\* it (state.ts:1506-1523).
StampSinceArrival ==
  \A s \in Ids :
    stamp[s] # None /\ s \notin blind =>
      Since(s) <= stamp[s] /\ stamp[s] <= boot[box[s]]

\* No line runs in a shell that it, or a leg beneath it, had lost before the
\* line's shells were read, when the server could be asked (runLine.ts:133-156).
EvictedNeverRuns == phase = "running" => ~evicted

\* The lowest of the shells a line closes unasked.
Dropped == stack[Len(stack')+1]

Closes ==
  /\ phase = "heard" /\ phase' = "idle" /\ reloads' = reloads
  /\ Len(stack') < Len(stack)

\* A line no rebuild lands under closes a shell unasked only when its row ended, or had
\* not landed when the server was asked; or its box rebooted since it was let in (the
\* own box: since the page was loaded); or no tree of the box was in hand when its boot
\* id was read, or is now.  An old or a foreign tree closes nothing.
ClosedForAReason ==
  [][Closes /\ ~replaced
       => \/ row[Dropped] = "ended" \/ late
          \/ Since(Dropped) < boot[box[Dropped]]
          \/ view = None \/ Dropped \in blind]_vars

\* "a network hiccup never breaks the switch" (state.ts:543-544): a shell is
\* not closed while nothing ended its row and its box did not reboot.
HiccupsCloseNothing ==
  [][Closes => row[Dropped] = "ended" \/ Since(Dropped) < boot[box[Dropped]]]_vars
=============================================================================

---------------------------- MODULE BrowserOwnership ----------------------------
(***************************************************************************)
(* utils/browser.py: which process the agent takes for the browser it      *)
(* launched.  An agent is a JobApply process that calls managed_browser   *)
(* for one job after another; the agents, the marker file in the profile, *)
(* the debug port and the processes of the machine change between any two  *)
(* steps.  A process id is used again when its process is gone; the        *)
(* identity of a program stands for its creation time.                     *)
(***************************************************************************)
EXTENDS Integers, FiniteSets

CONSTANTS
    Agents,
    Pids,          \* the process ids of the machine
    MaxPrograms,   \* bound: programs started
    MaxTries,      \* attempts to connect after a launch: 20 in the code
    MaxTroubles    \* bound: crashes, failing steps, overlaps of two agents

ASSUME BoundsAssumption ==
    MaxPrograms \in Nat /\ MaxTries \in Nat \ {0} /\ MaxTroubles \in Nat

Programs == 1..MaxPrograms
Nobody == 0

(* The marker file: absent, cut off by a crash, or naming a process and its creation time. *)
Absent == [kind |-> "absent", pid |-> Nobody, birth |-> Nobody]
Torn == [kind |-> "torn", pid |-> Nobody, birth |-> Nobody]
Naming(p, b) == [kind |-> "owner", pid |-> p, birth |-> b]

VARIABLES
    \* the machine
    state,        \* unborn, starting, open, leaving, dead
    launcher,     \* "agent" or "other"
    pidOf,
    port,         \* the program that listens on the debug port
    marker,
    \* the agents
    stage,
    purpose,      \* which call of verify_browser_ownership is running
    seen,         \* the marker it read
    mine,         \* the marker of the browser it launched, to be written
    tries,
    attached,     \* the program connected to
    \* history
    verified,     \* the listener of the last successful verification
    unmarked,     \* browsers no marker was written for, or a wrong one
    overlapped,   \* two agents were at work at the same time
    troubles

machine == <<state, launcher, pidOf, port>>
locals == <<purpose, seen, mine, tries>>
browserVars == <<machine, marker, stage, locals, attached, verified, unmarked, overlapped,
                 troubles>>

Alive(i) == state[i] \in {"starting", "open", "leaving"}
Browsers == {i \in Programs : launcher[i] = "agent"}
Living == {i \in Browsers : Alive(i)}

(* The id of a child is not used again while its parent holds the handle. *)
FreePids ==
    Pids \ ({pidOf[i] : i \in {j \in Programs : Alive(j)}} \cup {mine[a].pid : a \in Agents})

PortFree == port = Nobody
Unborn == {i \in Programs : state[i] = "unborn"}

Resting == {"idle", "connected"}

Proceed(a, point) == stage' = [stage EXCEPT ![a] = point]
Trouble == troubles < MaxTroubles /\ troubles' = troubles + 1

BrowserInit ==
    /\ state = [i \in Programs |-> "unborn"]
    /\ launcher = [i \in Programs |-> "nobody"]
    /\ pidOf = [i \in Programs |-> Nobody]
    /\ port = Nobody /\ marker = Absent
    /\ stage = [a \in Agents |-> "idle"]
    /\ purpose = [a \in Agents |-> "first"]
    /\ seen = [a \in Agents |-> Absent]
    /\ mine = [a \in Agents |-> Absent]
    /\ tries = [a \in Agents |-> 0]
    /\ attached = [a \in Agents |-> Nobody]
    /\ verified = [a \in Agents |-> Nobody]
    /\ unmarked = {} /\ overlapped = FALSE /\ troubles = 0

-----------------------------------------------------------------------------
(* verify_browser_ownership: read the marker, look at the process, clean up *)

Verify(a, why) == Proceed(a, "reading") /\ purpose' = [purpose EXCEPT ![a] = why]

(* What each caller does with the verdict. *)
Owned(a) ==
    CASE purpose[a] = "first" -> Verify(a, "attach")
      [] purpose[a] \in {"attach", "retry"} -> Proceed(a, "connecting") /\ UNCHANGED purpose
      [] purpose[a] = "launch" -> Proceed(a, "failed") /\ UNCHANGED purpose

NotOwned(a) ==
    CASE purpose[a] \in {"first", "attach"} -> Proceed(a, "launching") /\ UNCHANGED purpose
      [] purpose[a] = "launch" -> Proceed(a, "present") /\ UNCHANGED purpose
      [] purpose[a] = "retry" -> Proceed(a, "again") /\ UNCHANGED purpose

ReadMarker(a) ==
    /\ stage[a] = "reading"
    /\ seen' = [seen EXCEPT ![a] = marker]
    /\ IF marker.kind = "owner"
       THEN Proceed(a, "checking") /\ UNCHANGED purpose
       ELSE NotOwned(a)
    /\ UNCHANGED <<machine, marker, mine, tries, attached, verified, unmarked, overlapped,
                   troubles>>

Holders(a) == {i \in Programs : Alive(i) /\ pidOf[i] = seen[a].pid}

(* Mutation: any listener will do, also one outside the browser's process tree. *)
BugListens(i) == port # Nobody

(* The listeners of the port are the process or its children. *)
Listens(i) == port = i

(* Same creation time, launched with the port and the profile, and it is the listener. *)
IsOurs(a, i) == seen[a].birth = i /\ Listens(i)

(* Mutation: the marker is cleared whenever the verification fails. *)
BugCheckProcess(a) ==
    /\ stage[a] = "checking"
    /\ IF \E i \in Holders(a) : IsOurs(a, i)
       THEN Owned(a) /\ verified' = [verified EXCEPT ![a] = port]
       ELSE Proceed(a, "unlinking") /\ UNCHANGED <<purpose, verified>>
    /\ seen' = [seen EXCEPT ![a] = Absent]
    /\ UNCHANGED <<machine, marker, mine, tries, attached, unmarked, overlapped, troubles>>

CheckProcess(a) ==
    /\ stage[a] = "checking"
    /\ \/ /\ \E i \in Holders(a) : IsOurs(a, i)
          /\ Owned(a)
          /\ verified' = [verified EXCEPT ![a] = port]
          /\ UNCHANGED troubles
       \/ /\ Holders(a) # {} /\ ~\E i \in Holders(a) : IsOurs(a, i)
          /\ NotOwned(a) /\ UNCHANGED <<verified, troubles>>
       \/ /\ Holders(a) = {}                               \* NoSuchProcess
          /\ IF PortFree THEN Proceed(a, "unlinking") /\ UNCHANGED purpose ELSE NotOwned(a)
          /\ UNCHANGED <<verified, troubles>>
       \/ /\ Trouble                                       \* AccessDenied: fail closed
          /\ NotOwned(a) /\ UNCHANGED verified
    /\ seen' = [seen EXCEPT ![a] = Absent]
    /\ UNCHANGED <<machine, marker, mine, tries, attached, unmarked, overlapped>>

(* Mutation: a dead marker is left to the operator. *)
BugUnlink(a) ==
    /\ stage[a] = "unlinking"
    /\ NotOwned(a)
    /\ UNCHANGED <<machine, marker, seen, mine, tries, attached, verified, unmarked, overlapped,
                   troubles>>

Unlink(a) ==
    /\ stage[a] = "unlinking"
    /\ marker' = Absent
    /\ NotOwned(a)
    /\ UNCHANGED <<machine, seen, mine, tries, attached, verified, unmarked, overlapped, troubles>>

-----------------------------------------------------------------------------
(* launch_edge_for_jobapply *)

CheckMarker(a) ==
    /\ stage[a] = "launching"
    /\ IF marker = Absent THEN Proceed(a, "port") /\ UNCHANGED purpose ELSE Verify(a, "launch")
    /\ UNCHANGED <<machine, marker, seen, mine, tries, attached, verified, unmarked, overlapped,
                   troubles>>

(* Mutation: a marker that cannot be cleared is overwritten. *)
BugStillPresent(a) ==
    /\ stage[a] = "present"
    /\ Proceed(a, "port")
    /\ UNCHANGED <<machine, marker, locals, attached, verified, unmarked, overlapped, troubles>>

StillPresent(a) ==
    /\ stage[a] = "present"
    /\ Proceed(a, IF marker = Absent THEN "port" ELSE "failed")
    /\ UNCHANGED <<machine, marker, locals, attached, verified, unmarked, overlapped, troubles>>

CheckPort(a) ==
    /\ stage[a] = "port"
    /\ \/ Proceed(a, IF PortFree THEN "spawn" ELSE "failed") /\ UNCHANGED troubles
       \/ Proceed(a, "failed") /\ Trouble                    \* not provably free
    /\ UNCHANGED <<machine, marker, locals, attached, verified, unmarked, overlapped>>

Born(i, who) ==
    /\ i \in Unborn /\ \A j \in Unborn : i <= j
    /\ state' = [state EXCEPT ![i] = "starting"]
    /\ launcher' = [launcher EXCEPT ![i] = who]
    /\ \E p \in FreePids : pidOf' = [pidOf EXCEPT ![i] = p]
    /\ UNCHANGED port

(* The bounds leave no process to start. *)
NoProcess == Unborn = {} \/ FreePids = {}

(* Popen fails. *)
SpawnFails(a) ==
    /\ stage[a] = "spawn"
    /\ Trouble \/ (NoProcess /\ UNCHANGED troubles)
    /\ Proceed(a, "failed")
    /\ UNCHANGED <<machine, marker, locals, attached, verified, unmarked, overlapped>>

(* The time of writing replaces a creation time that cannot be read. *)
Spawn(a) ==
    /\ stage[a] = "spawn"
    /\ \E i \in Programs :
         /\ Born(i, "agent")
         /\ \/ mine' = [mine EXCEPT ![a] = Naming(pidOf'[i], i)] /\ UNCHANGED troubles
            \/ mine' = [mine EXCEPT ![a] = Naming(pidOf'[i], Nobody)] /\ Trouble
         /\ unmarked' = unmarked \cup {i}
    /\ Proceed(a, "truncate")
    /\ UNCHANGED <<marker, purpose, seen, tries, attached, verified, overlapped>>

(* write_text truncates the file before it writes. *)
Truncate(a) ==
    /\ stage[a] = "truncate"
    /\ marker' = Torn
    /\ Proceed(a, "write")
    /\ UNCHANGED <<machine, locals, attached, verified, unmarked, overlapped, troubles>>

WriteMarker(a) ==
    /\ stage[a] = "write"
    /\ marker' = mine[a]
    /\ unmarked' = unmarked \ {mine[a].birth}
    /\ mine' = [mine EXCEPT ![a] = Absent]
    /\ tries' = [tries EXCEPT ![a] = 0]
    /\ Verify(a, "retry")
    /\ UNCHANGED <<machine, seen, attached, verified, overlapped, troubles>>

-----------------------------------------------------------------------------
(* managed_browser *)

Begin(a) ==
    /\ stage[a] = "idle"
    /\ Verify(a, "first")
    /\ IF \E b \in Agents \ {a} : stage[b] \notin Resting
       THEN Trouble /\ overlapped' = TRUE
       ELSE UNCHANGED <<troubles, overlapped>>
    /\ UNCHANGED <<machine, marker, seen, mine, tries, attached, verified, unmarked>>

(* connect_over_cdp talks to whatever listens on the port by now. *)
Connect(a) ==
    /\ stage[a] = "connecting"
    /\ \/ /\ port # Nobody
          /\ attached' = [attached EXCEPT ![a] = port]
          /\ Proceed(a, "connected") /\ UNCHANGED troubles
       \/ /\ (port = Nobody /\ UNCHANGED troubles) \/ (port # Nobody /\ Trouble)
          /\ Proceed(a, IF purpose[a] = "retry" THEN "again" ELSE "launching")
          /\ UNCHANGED attached
    /\ UNCHANGED <<machine, marker, locals, verified, unmarked, overlapped>>

TryAgain(a) ==
    /\ stage[a] = "again"
    /\ tries' = [tries EXCEPT ![a] = tries[a] + 1]
    /\ IF tries[a] + 1 < MaxTries THEN Verify(a, "retry")
                                 ELSE Proceed(a, "failed") /\ UNCHANGED purpose
    /\ UNCHANGED <<machine, marker, seen, mine, attached, verified, unmarked, overlapped, troubles>>

(* The job is over, with its result or with the error; the next one begins. *)
Finish(a) ==
    /\ stage[a] \in {"connected", "failed"}
    /\ Proceed(a, "idle")
    /\ attached' = [attached EXCEPT ![a] = Nobody]
    /\ purpose' = [purpose EXCEPT ![a] = "first"]
    /\ tries' = [tries EXCEPT ![a] = 0]
    /\ seen' = [seen EXCEPT ![a] = Absent]
    /\ mine' = [mine EXCEPT ![a] = Absent]
    /\ verified' = [verified EXCEPT ![a] = Nobody]
    /\ UNCHANGED <<machine, marker, unmarked, overlapped, troubles>>

(* A JobApply process dies and is started again. *)
Crash(a) ==
    /\ stage[a] # "idle" /\ Trouble
    /\ Proceed(a, "idle")
    /\ attached' = [attached EXCEPT ![a] = Nobody]
    /\ purpose' = [purpose EXCEPT ![a] = "first"]
    /\ tries' = [tries EXCEPT ![a] = 0]
    /\ seen' = [seen EXCEPT ![a] = Absent]
    /\ mine' = [mine EXCEPT ![a] = Absent]
    /\ verified' = [verified EXCEPT ![a] = Nobody]
    /\ UNCHANGED <<machine, marker, unmarked, overlapped>>

-----------------------------------------------------------------------------
(* The machine *)

(* A second Edge on the profile hands over to the first one and ends; another program
   may want the port or not. *)
Start(i) ==
    /\ state[i] = "starting"
    /\ \/ /\ i \in Browsers /\ Living \ {i} # {}
          /\ state' = [state EXCEPT ![i] = "dead"] /\ UNCHANGED port
       \/ /\ i \notin Browsers \/ Living \ {i} = {}
          /\ state' = [state EXCEPT ![i] = "open"]
          /\ \/ PortFree /\ port' = i
             \/ (i \notin Browsers \/ ~PortFree) /\ UNCHANGED port
    /\ UNCHANGED <<launcher, pidOf, marker, stage, locals, attached, verified, unmarked,
                   overlapped, troubles>>

(* Its last tab is closed, by the agent or by hand, or it crashes; the bound leaves
   another one to launch. *)
CloseDown(i) ==
    /\ state[i] = "open"
    /\ i \in Browsers => Unborn # {}
    /\ state' = [state EXCEPT ![i] = "leaving"]
    /\ port' = IF port = i THEN Nobody ELSE port
    /\ UNCHANGED <<launcher, pidOf, marker, stage, locals, attached, verified, unmarked,
                   overlapped, troubles>>

End(i) ==
    /\ state[i] = "leaving"
    /\ state' = [state EXCEPT ![i] = "dead"]
    /\ pidOf' = [pidOf EXCEPT ![i] = Nobody]
    /\ UNCHANGED <<launcher, port, marker, stage, locals, attached, verified, unmarked,
                   overlapped, troubles>>

(* Some other program, under any id that is free; the bound leaves a browser to launch. *)
Other ==
    /\ Cardinality(Unborn) > 1
    /\ \E i \in Unborn : Born(i, "other")
    /\ UNCHANGED <<marker, stage, locals, attached, verified, unmarked, overlapped, troubles>>

-----------------------------------------------------------------------------
AgentStep(a) ==
    \/ ReadMarker(a) \/ CheckProcess(a) \/ Unlink(a)
    \/ CheckMarker(a) \/ StillPresent(a) \/ CheckPort(a)
    \/ Spawn(a) \/ SpawnFails(a) \/ Truncate(a) \/ WriteMarker(a)
    \/ Begin(a) \/ Connect(a) \/ TryAgain(a) \/ Finish(a)

MachineStep(i) == Start(i) \/ End(i)

BrowserNext ==
    \/ \E a \in Agents : AgentStep(a) \/ Crash(a)
    \/ \E i \in Programs : MachineStep(i) \/ CloseDown(i)
    \/ Other

BrowserSpec == BrowserInit /\ [][BrowserNext]_browserVars

(* The agents go from job to job; a process that starts or ends gets there.  An agent that *)
(* the bound on overlaps keeps from beginning has its turn.                               *)
FairBrowserSpec ==
    /\ BrowserSpec
    /\ \A a \in Agents : WF_browserVars(AgentStep(a)) /\ SF_browserVars(Begin(a))
    /\ \A i \in Programs : WF_browserVars(MachineStep(i))

-----------------------------------------------------------------------------
(* Properties *)

(* The agent never drives a program it did not launch, unless the port changed hands      *)
(* between the verification and the connection: no program on the port and no process     *)
(* with a reused id is taken for the browser.                                             *)
DrivesItsOwn ==
    \A a \in Agents :
        attached[a] # Nobody /\ attached[a] \notin Browsers => attached[a] # verified[a]

(* browser.py:173: a marker is removed "ONLY if the owning process is provably dead".  It *)
(* holds of one agent at a time: another may write a marker before the unlink.           *)
MarkerOutlivesItsBrowser ==
    [][\A i \in Living :
          marker = Naming(pidOf[i], i) /\ marker' # marker => overlapped']_browserVars

(* launch_edge_for_jobapply starts no second browser on the profile, unless agents       *)
(* overlap or a crash or a failed inspection left the first one without its marker.       *)
LaunchesOne ==
    [][\A a \in Agents : stage[a] = "spawn" /\ stage'[a] = "truncate" =>
          overlapped \/ Living \subseteq unmarked]_browserVars

(* One agent at a time keeps one browser, under one marker. *)
OneMarkedBrowser == MarkerOutlivesItsBrowser /\ LaunchesOne

(* What stands in the way of a browser until it ends or an operator removes it. *)

(* An unrelated process has the port or, by reuse, the id the marker names: the marker is *)
(* then neither the browser's nor provably dead (browser.py:230, 305).                    *)
Squatted ==
    \E i \in Programs \ Browsers :
        Alive(i) /\ (port = i \/ (marker.kind = "owner" /\ marker.pid = pidOf[i]))

BeingMarked(i) ==
    \E a \in Agents : stage[a] \in {"truncate", "write"} /\ mine[a] = Naming(pidOf[i], i)

(* A browser was left without its marker, or came up without the port. *)
Stray ==
    \E i \in Living :
        \/ marker # Naming(pidOf[i], i) /\ ~BeingMarked(i)
        \/ state[i] = "open" /\ port # i

(* A crash cut the marker off. *)
CutOff == marker = Torn /\ \A a \in Agents : stage[a] # "write"

(* There is no browser and no process for one. *)
Exhausted == Living = {} /\ NoProcess

Obstructed == Squatted \/ Stray \/ CutOff \/ Exhausted

(* Whatever went wrong before, browsers that closed, processes that took their ids or the *)
(* port and ended, crashes and overlapping agents, costs at most some jobs: once nothing  *)
(* stands in the way any more every agent gets to a browser again and again.              *)
Recovers == \A a \in Agents : <>[]~Obstructed => []<>(stage[a] = "connected")
=============================================================================

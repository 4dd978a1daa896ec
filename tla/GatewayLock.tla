----------------------------- MODULE GatewayLock -----------------------------
(***************************************************************************)
(* The lock files of the gateway (infra/gateway-lock.ts) and the run loop  *)
(* that takes and releases them (cli/gateway-cli/run-loop.ts), on Linux.   *)
(*                                                                         *)
(* A process first creates the global lock file, then the lock file of its *)
(* configuration, both with an exclusive open, and only then writes who it *)
(* is into them.  A process that finds a file reads it, judges its owner   *)
(* by the port and the process table, and removes the file of an owner it  *)
(* takes for dead: three steps between which others move.  A process is a  *)
(* process id: it starts once, may restart its server in place, and leaves *)
(* its files behind when it crashes.                                       *)
(*                                                                         *)
(* Clocks are left out: an attempt may run out of time once it has slept,  *)
(* and a lock file that says nothing of its owner may be old enough to be  *)
(* removed only when the process that created it is gone.                  *)
(***************************************************************************)
EXTENDS Naturals, FiniteSets

CONSTANTS
  Procs,     \* gateway processes
  Ended,     \* those that ended before, perhaps leaving lock files behind
  ConfigOf,  \* the configuration file of each
  Ports,     \* ports a process may be told to listen on
  Hosts,     \* addresses a start may bind: of "loopback", "all" and "other"
  Nobody     \* no process

Configs == {ConfigOf[p] : p \in Procs}

ASSUME GatewayLockAssumption ==
  /\ Ended \subseteq Procs
  /\ ConfigOf \in [Procs -> Configs]
  /\ Hosts \subseteq {"loopback", "all", "other"}
  /\ Nobody \notin Procs

VARIABLES
  port,        \* the port of each process that may still start
  host,        \* the address each process listens on, "none" if it does not
  globalLock,  \* the global lock file
  configLock,  \* the lock file of each configuration
  pc,          \* where each process is
  seen,        \* the owner it read from a lock file, until it has judged it; one
               \* whose probe timed out, until the file is removed
  slept,       \* it has slept in this attempt, so its time may be up
  after        \* what follows once it has released its locks

vars == <<port, host, globalLock, configLock, pc, seen, slept, after>>

File == [by : Procs, written : BOOLEAN]
NoFile == [by |-> Nobody, written |-> FALSE]
Created(p) == [by |-> p, written |-> FALSE]
Written(p) == [by |-> p, written |-> TRUE]
LeftBehind(P) == {NoFile} \cup {Created(p) : p \in P} \cup {Written(p) : p \in P}

Init ==
  /\ port \in [Procs \ Ended -> Ports]
  /\ host = [p \in Procs |-> "none"]
  /\ globalLock \in LeftBehind(Ended)
  /\ configLock \in [Configs -> LeftBehind(Ended)]
  /\ \A c \in Configs : configLock[c].by # Nobody => ConfigOf[configLock[c].by] = c
  /\ pc = [p \in Procs |-> IF p \in Ended THEN "gone" ELSE "idle"]
  /\ seen = [p \in Procs |-> Nobody]
  /\ slept = [p \in Procs |-> FALSE]
  /\ after = [p \in Procs |-> "first"]

Alive(p) == pc[p] \notin {"idle", "refused", "gone"}
Listening(p) == host[p] # "none"

\* checkPortFree connects to 127.0.0.1, where a gateway bound to a tailnet or
\* custom address does not answer.
Answers(q) == host[q] \in {"loopback", "all"}
PortFree(p) == \A q \in Procs : Answers(q) => port[q] # port[p]

\* A server can be bound beside those on other ports or other addresses.
Bindable(p, h) ==
  \A q \in Procs :
    Listening(q) /\ port[q] = port[p] => host[q] # h /\ "all" \notin {host[q], h}

Goto(p, l) == pc' = [pc EXCEPT ![p] = l]

\* readLockPayload: nothing is read from a file that is gone or still empty.
Payload(f) == IF f.written THEN f.by ELSE Nobody

\* Mutant: the answer of the probe is taken the wrong way round.
OwnerAliveIfFree(p) == PortFree(p) /\ Alive(seen[p])

\* resolveGatewayOwnerStatus for an owner that was read.  The prober's own
\* port is probed; a process id is never reused here, so the start times agree.
OwnerAlive(p) == ~PortFree(p) /\ Alive(seen[p])

\* Mutant: the file is marked as written whoever's it is, or if it is gone.
WriteThroughPath(f, p) == [f EXCEPT !.written = TRUE]

\* The file at a path is another one once somebody has replaced it: writing
\* through the handle of the old one changes nothing there.
WriteThrough(f, p) == IF f.by = p THEN Written(p) ELSE f

---------------------------------------------------------------------------
(* acquireGatewayLock, step 1: the global lock.                            *)

Start(p) ==
  /\ pc[p] = "idle"
  /\ Goto(p, "openGlobal")
  /\ UNCHANGED <<port, host, globalLock, configLock, seen, slept, after>>

OpenGlobal(p) ==
  /\ pc[p] = "openGlobal"
  /\ globalLock' = IF globalLock = NoFile THEN Created(p) ELSE globalLock
  /\ Goto(p, IF globalLock = NoFile THEN "openConfig" ELSE "readGlobal")
  /\ UNCHANGED <<port, host, configLock, seen, slept, after>>

ReadGlobal(p) ==
  /\ pc[p] = "readGlobal"
  /\ seen' = [seen EXCEPT ![p] = Payload(globalLock)]
  /\ Goto(p, "probeGlobal")
  /\ UNCHANGED <<port, host, globalLock, configLock, slept, after>>

\* Mutant: a file that says nothing of its owner is waited for.
ProbeGlobalPatient(p) ==
  /\ pc[p] = "probeGlobal"
  /\ Goto(p, IF seen[p] = Nobody \/ OwnerAlive(p) THEN "openGlobal" ELSE "removeGlobal")
  /\ slept' = [slept EXCEPT ![p] = @ \/ seen[p] = Nobody \/ OwnerAlive(p)]
  /\ seen' = [seen EXCEPT ![p] = Nobody]
  /\ UNCHANGED <<port, host, globalLock, configLock, after>>

\* On Linux an owner that is not known to be alive does not keep the lock.
ProbeGlobal(p) ==
  /\ pc[p] = "probeGlobal"
  /\ Goto(p, IF seen[p] # Nobody /\ OwnerAlive(p) THEN "openGlobal" ELSE "removeGlobal")
  /\ slept' = [slept EXCEPT ![p] = @ \/ (seen[p] # Nobody /\ OwnerAlive(p))]
  /\ seen' = [seen EXCEPT ![p] = Nobody]
  /\ UNCHANGED <<port, host, globalLock, configLock, after>>

\* Whatever file is there by now is removed.
RemoveGlobal(p) ==
  /\ pc[p] = "removeGlobal"
  /\ globalLock' = NoFile
  /\ seen' = [seen EXCEPT ![p] = Nobody]
  /\ Goto(p, "openGlobal")
  /\ UNCHANGED <<port, host, configLock, slept, after>>

GlobalTimeout(p) ==
  /\ pc[p] = "openGlobal"
  /\ slept[p]
  /\ Goto(p, "refused")
  /\ UNCHANGED <<port, host, globalLock, configLock, seen, slept, after>>

---------------------------------------------------------------------------
(* Step 2: the lock of the configuration.                                  *)

OpenConfig(p) ==
  /\ pc[p] = "openConfig"
  /\ LET c == ConfigOf[p] IN
     /\ configLock' = [configLock EXCEPT ![c] = IF @ = NoFile THEN Created(p) ELSE @]
     /\ Goto(p, IF configLock[c] = NoFile THEN "writeConfig" ELSE "readConfig")
  /\ UNCHANGED <<port, host, globalLock, seen, slept, after>>

ReadConfig(p) ==
  /\ pc[p] = "readConfig"
  /\ seen' = [seen EXCEPT ![p] = Payload(configLock[ConfigOf[p]])]
  /\ Goto(p, "probeConfig")
  /\ UNCHANGED <<port, host, globalLock, configLock, slept, after>>

\* Without an owner only the age of the file found now decides.
MayBeStale(f) == f # NoFile /\ ~Alive(f.by)

ProbeConfig(p) ==
  /\ pc[p] = "probeConfig"
  /\ \E stale \in BOOLEAN :
       /\ seen[p] # Nobody => stale = ~OwnerAlive(p)
       /\ seen[p] = Nobody => (stale => MayBeStale(configLock[ConfigOf[p]]))
       /\ Goto(p, IF stale THEN "removeConfig" ELSE "openConfig")
       /\ slept' = [slept EXCEPT ![p] = @ \/ ~stale]
  /\ seen' = [seen EXCEPT ![p] = Nobody]
  /\ UNCHANGED <<port, host, globalLock, configLock, after>>

\* The connection is not made within a second: the port counts as free.
ProbeTimesOut(p) ==
  /\ pc[p] \in {"probeGlobal", "probeConfig"}
  /\ seen[p] # Nobody
  /\ Goto(p, IF pc[p] = "probeGlobal" THEN "removeGlobal" ELSE "removeConfig")
  /\ UNCHANGED <<port, host, globalLock, configLock, seen, slept, after>>

RemoveConfig(p) ==
  /\ pc[p] = "removeConfig"
  /\ configLock' = [configLock EXCEPT ![ConfigOf[p]] = NoFile]
  /\ seen' = [seen EXCEPT ![p] = Nobody]
  /\ Goto(p, "openConfig")
  /\ UNCHANGED <<port, host, globalLock, slept, after>>

WriteConfig(p) ==
  /\ pc[p] = "writeConfig"
  /\ configLock' = [configLock EXCEPT ![ConfigOf[p]] = WriteThrough(@, p)]
  /\ Goto(p, "writeGlobal")
  /\ UNCHANGED <<port, host, globalLock, seen, slept, after>>

WriteGlobal(p) ==
  /\ pc[p] = "writeGlobal"
  /\ globalLock' = WriteThrough(globalLock, p)
  /\ Goto(p, "held")
  /\ UNCHANGED <<port, host, configLock, seen, slept, after>>

ConfigTimeout(p) ==
  /\ pc[p] = "openConfig"
  /\ slept[p]
  /\ Goto(p, "cleanUp")
  /\ UNCHANGED <<port, host, globalLock, configLock, seen, slept, after>>

CleanUp(p) ==
  /\ pc[p] = "cleanUp"
  /\ globalLock' = NoFile
  /\ Goto(p, "refused")
  /\ UNCHANGED <<port, host, configLock, seen, slept, after>>

---------------------------------------------------------------------------
(* runGatewayLoop: the server is started under the lock, and the lock is   *)
(* released when it is closed.                                             *)

Listen(p) ==
  /\ pc[p] \in {"held", "parked"}
  /\ \E h \in Hosts : Bindable(p, h) /\ host' = [host EXCEPT ![p] = h]
  /\ Goto(p, IF pc[p] = "held" THEN "serving" ELSE "bare")
  /\ UNCHANGED <<port, globalLock, configLock, seen, slept, after>>

\* A failed first start ends the process; after a restart it stays alive
\* without its locks and waits for the next signal.
StartFails(p) ==
  /\ pc[p] = "held"
  /\ Goto(p, "releaseConfig")
  /\ after' = [after EXCEPT ![p] = IF @ = "first" THEN "exit" ELSE "park"]
  /\ UNCHANGED <<port, host, globalLock, configLock, seen, slept>>

\* The port is free again before the files go.
CloseServer(p) ==
  /\ pc[p] = "serving"
  /\ Goto(p, "releaseConfig")
  /\ host' = [host EXCEPT ![p] = "none"]
  /\ \E next \in {"exit", "again"} : after' = [after EXCEPT ![p] = next]
  /\ UNCHANGED <<port, globalLock, configLock, seen, slept>>

\* Without a lock there is none to release, nor to take again.
CloseBareServer(p) ==
  /\ pc[p] = "bare"
  /\ \E next \in {"parked", "gone"} : Goto(p, next)
  /\ host' = [host EXCEPT ![p] = "none"]
  /\ UNCHANGED <<port, globalLock, configLock, seen, slept, after>>

ReleaseConfig(p) ==
  /\ pc[p] = "releaseConfig"
  /\ configLock' = [configLock EXCEPT ![ConfigOf[p]] = NoFile]
  /\ Goto(p, "releaseGlobal")
  /\ UNCHANGED <<port, host, globalLock, seen, slept, after>>

ReleaseGlobal(p) ==
  /\ pc[p] = "releaseGlobal"
  /\ globalLock' = NoFile
  /\ slept' = [slept EXCEPT ![p] = FALSE]
  /\ Goto(p, IF after[p] = "exit" THEN "gone"
             ELSE IF after[p] = "again" THEN "openGlobal" ELSE "parked")
  /\ UNCHANGED <<port, host, configLock, seen, after>>

Crash(p) ==
  /\ Alive(p)
  /\ Goto(p, "gone")
  /\ host' = [host EXCEPT ![p] = "none"]
  /\ UNCHANGED <<port, globalLock, configLock, seen, slept, after>>

---------------------------------------------------------------------------
AcquireStep(p) ==
  \/ OpenGlobal(p) \/ ReadGlobal(p) \/ ProbeGlobal(p) \/ RemoveGlobal(p)
  \/ OpenConfig(p) \/ ReadConfig(p) \/ ProbeConfig(p) \/ RemoveConfig(p)
  \/ WriteConfig(p) \/ WriteGlobal(p) \/ CleanUp(p)

TimeoutStep(p) == GlobalTimeout(p) \/ ConfigTimeout(p)

ServerStep(p) ==
  \/ Listen(p) \/ StartFails(p) \/ CloseServer(p) \/ CloseBareServer(p)
  \/ ReleaseConfig(p) \/ ReleaseGlobal(p)

Next ==
  \E p \in Procs :
    \/ Start(p) \/ AcquireStep(p) \/ TimeoutStep(p) \/ ProbeTimesOut(p)
    \/ ServerStep(p) \/ Crash(p)

Spec == Init /\ [][Next]_vars

\* File operations return, and a process runs on as long as it lives.
Fairness == \A p \in Procs : WF_vars(AcquireStep(p))

FairSpec == Spec /\ Fairness

---------------------------------------------------------------------------
(* Properties.                                                             *)

PCs == {"idle", "openGlobal", "readGlobal", "probeGlobal", "removeGlobal", "openConfig",
        "readConfig", "probeConfig", "removeConfig", "writeConfig", "writeGlobal", "cleanUp",
        "held", "serving", "releaseConfig", "releaseGlobal", "parked", "bare", "refused", "gone"}

TypeOK ==
  /\ port \in [Procs \ Ended -> Ports]
  /\ host \in [Procs -> Hosts \cup {"none"}]
  /\ globalLock \in File \cup {NoFile}
  /\ configLock \in [Configs -> File \cup {NoFile}]
  /\ pc \in [Procs -> PCs]
  /\ seen \in [Procs -> Procs \cup {Nobody}]
  /\ slept \in [Procs -> BOOLEAN]
  /\ after \in [Procs -> {"first", "exit", "again", "park"}]

Holds(p) == pc[p] \in {"held", "serving"}

\* A process that has not started, has ended, or only waits for the lock and
\* has no other owner's name in hand.
Waiting(q, p) ==
  \/ pc[q] \in {"idle", "refused", "gone"}
  \/ /\ pc[q] \in {"openGlobal", "readGlobal", "probeGlobal"}
     /\ pc[q] = "probeGlobal" => seen[q] = p

Settled(p) ==
  /\ pc[p] = "serving"
  /\ Answers(p)
  /\ globalLock = Written(p)
  /\ configLock[ConfigOf[p]] = Written(p)
  /\ \A q \in Procs \ {p} : Waiting(q, p)
  /\ \A q \in Procs \ {p} : Alive(q) => port[q] = port[p]

\* What the lock does guarantee: once a gateway listens where the loopback
\* address reaches it, its files are in place and nobody is half-way through
\* judging or removing a file, no other process gets past it until it closes its
\* server or dies, however many try and crash - unless one of them uses another
\* port, whose probe finds that port free and takes the owner for dead, or a
\* probe of the owner's own port times out.
SettledStays ==
  [][\A p \in Procs :
       Settled(p) =>
         \/ Settled(p)'
         \/ pc'[p] # "serving"
         \/ \E q \in Procs : pc[q] = "idle" /\ pc'[q] # "idle" /\ port[q] # port[p]
         \/ \E q \in Procs : ProbeTimesOut(q)]_vars

Alone(p) == \A q \in Procs \ {p} : ~Alive(q)

\* A process died between creating its configuration's lock and writing it.
Orphaned(c) == configLock[c] # NoFile /\ ~configLock[c].written /\ ~Alive(configLock[c].by)

\* Wherever the processes before it died - acquiring, serving, releasing, or
\* removing somebody's file - a process that tries on its own gets the locks
\* and is not refused, unless a configuration's lock was left unwritten.
LoneStartSucceeds ==
  \A p \in Procs :
    pc[p] = "openGlobal" /\ ~slept[p] /\ Alone(p) ~>
      Holds(p) \/ pc[p] = "gone" \/ ~Alone(p) \/ Orphaned(ConfigOf[p])
=============================================================================

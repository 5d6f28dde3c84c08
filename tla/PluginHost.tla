------------------------------ MODULE PluginHost ------------------------------
(***************************************************************************)
(* The host of an inbound account whose tasks are kept in a json-file      *)
(* directory: A2AInboundPluginHost (plugin-host.ts) with the servers of    *)
(* a2a-server.ts, over the writer lock of the directory.                   *)
(*                                                                         *)
(* A store of the lock stands for one startAccount call and the server it  *)
(* creates.  The configuration gives a directory to one account, so that   *)
(* the stores of a process are successive starts of one account; another   *)
(* process has the account configured too.  The account is enabled and     *)
(* configured: otherwise startAccount only waits for its signal.  The      *)
(* gateway that starts and stops accounts is external: what it may call,   *)
(* and when, is all that is assumed of it.                                 *)
(***************************************************************************)
EXTENDS WriterLock

CONSTANTS
  MayOverlap   \* the gateway may start the account before its last start ended

ASSUME HostAssumption == MayOverlap \in BOOLEAN

VARIABLES
  start,      \* startAccount calls: how far each has come
  aborted,    \* the starts whose signal was aborted
  active,     \* activeAccounts of each process: the server, or None
  running,    \* the processes that report the account as running
  overlapped  \* the processes where two starts of the account overlapped

host == <<start, aborted, active, running, overlapped>>
hostVars == <<vars, host>>

Ongoing(p) == {s \in Stores : ProcessOf[s] = p /\ start[s] \in {"creating", "waiting"}}

-----------------------------------------------------------------------------
StartAccount(s) ==
  LET p == ProcessOf[s]
  IN  /\ start[s] = "none" /\ p \in up
      /\ Ongoing(p) # {} => MayOverlap
      /\ start' = [start EXCEPT ![s] = "creating"]
      /\ overlapped' = IF Ongoing(p) = {} THEN overlapped ELSE overlapped \union {p}
      /\ UNCHANGED <<vars, aborted, active, running>>

\* createA2AInboundServer: its one await is the store, which takes the lock.
CreateServer(s) ==
  /\ start[s] = "creating"
  /\ Acquire(s) \/ Acquiring(s) \/ GivesUp(s)
  /\ UNCHANGED host

\* Variant: the server is closed but stays in the map.
StopKeepsServer(p, registered) ==
  /\ IF registered = None THEN UNCHANGED vars ELSE Release(registered)
  /\ active' = [active EXCEPT ![p] = registered]
  /\ running' = running \ {p}

\* stopAccountInternal, with the server that is registered: close() gives up
\* its share of the lock at once.
Stop(p, registered) ==
  /\ IF registered = None THEN UNCHANGED vars ELSE Release(registered)
  /\ active' = [active EXCEPT ![p] = None]
  /\ running' = running \ {p}

\* Variant: a signal that was aborted during the creation is not looked at.
StartedUnaborted(s) ==
  /\ start[s] = "creating" /\ At(s, "holding")
  /\ start' = [start EXCEPT ![s] = "waiting"]
  /\ active' = [active EXCEPT ![ProcessOf[s]] = s]
  /\ running' = running \union {ProcessOf[s]}
  /\ UNCHANGED <<vars, aborted, overlapped>>

\* The server is there: it is registered, in place of any other, and reported
\* as running.  waitUntilAbort stops it when the signal was aborted meanwhile.
Started(s) ==
  /\ start[s] = "creating" /\ At(s, "holding")
  /\ IF s \in aborted
       THEN /\ start' = [start EXCEPT ![s] = "ended"]
            /\ Stop(ProcessOf[s], s)
       ELSE /\ start' = [start EXCEPT ![s] = "waiting"]
            /\ active' = [active EXCEPT ![ProcessOf[s]] = s]
            /\ running' = running \union {ProcessOf[s]}
            /\ UNCHANGED vars
  /\ UNCHANGED <<aborted, overlapped>>

\* The lock was not to be had: startAccount throws.
StartFails(s) ==
  /\ start[s] = "creating" /\ At(s, "failed")
  /\ start' = [start EXCEPT ![s] = "failed"]
  /\ UNCHANGED <<vars, aborted, active, running, overlapped>>

\* The gateway aborts the signal of a start.  One that waits stops the server
\* that is registered by now.
Abort(s) ==
  /\ start[s] \in {"creating", "waiting"} /\ s \notin aborted
  /\ aborted' = aborted \union {s}
  /\ IF start[s] = "waiting"
       THEN /\ start' = [start EXCEPT ![s] = "ended"]
            /\ Stop(ProcessOf[s], active[ProcessOf[s]])
       ELSE UNCHANGED <<vars, start, active, running>>
  /\ UNCHANGED overlapped

\* stopAccount, also while no server is registered.
StopAccount(p) ==
  /\ p \in up
  /\ Stop(p, active[p])
  /\ UNCHANGED <<start, aborted, overlapped>>

\* rm(path) of a release goes on after close() returned.
CloseEnds(s) == RemoveFile(s) /\ UNCHANGED host

\* The host goes on, with a server that has lost its lock.
HostSignal(p) == Signal(p) /\ UNCHANGED host

HostDies(p) ==
  /\ Die(p)
  /\ start' = [s \in Stores |-> IF ProcessOf[s] = p THEN "ended" ELSE start[s]]
  /\ active' = [active EXCEPT ![p] = None]
  /\ running' = running \ {p}
  /\ UNCHANGED <<aborted, overlapped>>

LockAges == Age /\ UNCHANGED host

-----------------------------------------------------------------------------
HostInit ==
  /\ Init
  /\ start = [s \in Stores |-> "none"]
  /\ aborted = {}
  /\ active = [p \in Processes |-> None]
  /\ running = {}
  /\ overlapped = {}

HostNext ==
  \/ \E s \in Stores : \/ StartAccount(s) \/ CreateServer(s) \/ Started(s)
                       \/ StartFails(s) \/ Abort(s) \/ CloseEnds(s)
  \/ \E p \in Processes : StopAccount(p) \/ HostSignal(p) \/ HostDies(p)
  \/ LockAges

\* The file system answers, the code after an await runs, time goes by, and
\* the gateway stops every account some time.
HostSpec ==
  /\ HostInit /\ [][HostNext]_hostVars
  /\ \A s \in Stores :
       /\ WF_hostVars(start[s] = "creating" /\ (Acquire(s) \/ Acquiring(s)) /\ UNCHANGED host)
       /\ WF_hostVars(Started(s))
       /\ WF_hostVars(StartFails(s))
       /\ WF_hostVars(Abort(s))
       /\ WF_hostVars(CloseEnds(s))
  /\ WF_hostVars(LockAges)

-----------------------------------------------------------------------------
HostTypeOK ==
  /\ TypeOK
  /\ start \in [Stores -> {"none", "creating", "waiting", "ended", "failed"}]
  /\ aborted \subseteq Stores
  /\ active \in [Processes -> Stores \union {None}]
  /\ running \subseteq Processes
  /\ overlapped \subseteq Processes

\* The server the HTTP routes and queued replies of an account go to has not
\* been closed and is the writer of its directory; the account is reported as
\* running as long as there is one.  A server whose lock a survived signal took
\* stays registered too, and open: it alone may not be the writer any more.
ActiveServerOpen ==
  \A p \in Processes :
    /\ p \in running <=> active[p] # None
    /\ active[p] # None => /\ ProcessOf[active[p]] = p
                           /\ Holding(active[p])
                           /\ \/ file # None /\ file.owner = p
                              \/ active[p] \in lost \/ overtaken

\* A start whose signal was aborted leaves no server open, at whatever moment
\* of the creation the signal came.  (Not so when the gateway starts the
\* account twice: the second server takes the place of the first, which nobody
\* closes any more, and the lock is never given up.)
AbortedStartsClose ==
  \A s \in Stores :
    s \in aborted
      ~> \/ start[s] \in {"ended", "failed"} /\ store[s].pc \in {"idle", "released", "failed"}
         \/ overlapped # {}

\* A start that waits for the lock gets it or gives up, although its owner
\* died with the lock held or half created; and so when the owner is stopped,
\* unless the owner leaked a server.
StartsEnd ==
  \A s \in Stores :
    store[s].pc = "opening"
      ~> \/ store[s].pc \in {"holding", "failed", "released"}
         \/ ProcessOf[s] \notin up
         \/ overlapped # {}
=============================================================================

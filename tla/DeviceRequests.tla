--------------------------- MODULE DeviceRequests ---------------------------
(***************************************************************************)
(* Requests that the Kernel forwards to a device: the routing table, the   *)
(* requests under way in memory, the expiry rows of the host's scheduler,  *)
(* the device's connections and their replacement, and the answer of a     *)
(* request, which comes from the device, from the expiry of its route, from *)
(* a disconnect or from a cancellation.                                    *)
(*                                                                         *)
(* A request is asked over the client's connection, by a process, or by a  *)
(* process through requestProcessNetFetch, whose call stays open until the *)
(* answer ("fetch"). There is one client and one device. An action is one  *)
(* stretch of a handler between two awaits. External: the client, the      *)
(* processes, the device, the sockets, the host's scheduler. Ids are never *)
(* used again. A cancelled row is left to fire and to find no route.       *)
(***************************************************************************)
EXTENDS Naturals, FiniteSets

CONSTANTS Requests,
          Drivers,    \* connections of the device, each used once
          None,       \* no connection
          MaxFaults,  \* bound on refused rows, failed sends and lost answers
          MaxRestarts \* bound on restarts of the Kernel

ASSUME RequestsAssumption ==
  /\ None \notin Drivers
  /\ MaxFaults \in Nat /\ MaxRestarts \in Nat

Kinds == {"connection", "process", "fetch"}

VARIABLES
  kind,       \* who asks the request: one of Kinds
  \* Sockets.
  client,     \* the client is connected
  link,       \* connections of the device: "new", "open", "superseded", "dropped", "closed"
  \* The Kernel's memory.
  fiber,      \* the request's handler: "new", "storing" its route, "waiting", "over"
  to,         \* the connection chosen for it
  aborted,    \* activeRequests whose controller has aborted
  remembered, \* cancelledProcessRequests
  \* Durable.
  route,      \* driver_connection_id of the request's row in routing_table, or None
  timers,     \* requests with a row for onRouteExpired
  \* Outside the Kernel.
  mail,       \* answers on their way to a process
  work,       \* the device: "none", "working", "answered" (under way), "over"
  told,       \* requests whose cancellation was sent to the device
  \* Bounds and history.
  faults, restarts,
  cancelled,  \* requests their origin cancelled
  forgotten,  \* cancellations that expired, were evicted, or lost in a restart
  quieted,    \* requests whose route a cancellation or a closed origin removed
  unheard,    \* requests whose answer was lost with the Kernel or on its way
  answers     \* how many answers the origin got

sockets == <<client, link>>
memory == <<fiber, to, aborted, remembered>>
table == <<route, timers>>
device == <<work, told>>
history == <<cancelled, forgotten, quieted, unheard>>
bounds == <<faults, restarts>>
vars == <<kind, sockets, memory, table, mail, device, bounds, history, answers>>

-----------------------------------------------------------------------------
\* isConnectionForDevice, for a connection the Kernel still lists.
Open(d) == link[d] = "open"

Routed(r) == route[r] # None

RoutedTo(d) == {r \in Requests : route[r] = d}

\* The origin can be answered: its connection is there, its call is open.
Hears(r) == CASE kind[r] = "connection" -> client
              [] kind[r] = "fetch"      -> fiber[r] = "waiting"
              [] OTHER                  -> TRUE

Counted(R) == answers' = [r \in Requests |-> IF r \in R THEN answers[r] + 1 ELSE answers[r]]

\* The handler itself answers the request: a response frame or a rejected call.
AnsweredAtOnce(r) == Counted({r} \cap {q \in Requests : kind[q] # "connection" \/ client})

\* Mutant of Delivered: the rows stay in the routing table.
DeliveredKept(R) ==
  /\ route' = route
  /\ mail' = mail \cup {r \in R : kind[r] = "process"}
  /\ fiber' = [r \in Requests |-> IF r \in R /\ kind[r] = "fetch" THEN "over" ELSE fiber[r]]
  /\ Counted({r \in R : kind[r] # "process" /\ Hears(r)})

\* The rows of R are deleted and an answer goes to the origin of each.
Delivered(R) ==
  /\ route' = [r \in Requests |-> IF r \in R THEN None ELSE route[r]]
  /\ mail' = mail \cup {r \in R : kind[r] = "process"}
  /\ fiber' = [r \in Requests |-> IF r \in R /\ kind[r] = "fetch" THEN "over" ELSE fiber[r]]
  /\ Counted({r \in R : kind[r] # "process" /\ Hears(r)})

\* Mutant of Stops: the device is not told.
StopsNothing(R) == told' = told

\* sendDeviceRequestCancel for each request of R that has a listed connection.
Stops(R) == told' = told \cup {r \in R : to[r] # None /\ Open(to[r])}

Fault == faults < MaxFaults /\ faults' = faults + 1

Init ==
  /\ kind \in [Requests -> Kinds]
  /\ client = TRUE /\ link = [d \in Drivers |-> "new"]
  /\ fiber = [r \in Requests |-> "new"] /\ to = [r \in Requests |-> None]
  /\ aborted = {} /\ remembered = {}
  /\ route = [r \in Requests |-> None] /\ timers = {}
  /\ mail = {}
  /\ work = [r \in Requests |-> "none"] /\ told = {}
  /\ faults = 0 /\ restarts = 0
  /\ cancelled = {} /\ forgotten = {} /\ quieted = {} /\ unheard = {}
  /\ answers = [r \in Requests |-> 0]

-----------------------------------------------------------------------------
(* A request comes in. *)

Arrives(r) ==
  /\ fiber[r] = "new"
  /\ kind[r] = "connection" => client

\* Mutant of Refused: the cancellation is not looked up.
NeverRefused(r) == FALSE

\* registerActiveRequest: the cancellation came first.
Refused(r) == r \in remembered

\* Refused, or the device is offline.
AskInVain(r) ==
  /\ Arrives(r)
  /\ Refused(r) \/ \A d \in Drivers : ~Open(d)
  /\ AnsweredAtOnce(r)
  /\ fiber' = [fiber EXCEPT ![r] = "over"]
  /\ remembered' = remembered \ {r}
  /\ UNCHANGED <<kind, sockets, to, aborted, table, mail, device, bounds, history>>

\* routeToTarget, requestDevice: a connection is chosen, the expiry is stored.
Ask(r) ==
  /\ Arrives(r)
  /\ ~Refused(r)
  /\ \E d \in Drivers : Open(d) /\ to' = [to EXCEPT ![r] = d]
  /\ fiber' = [fiber EXCEPT ![r] = "storing"]
  /\ remembered' = remembered \ {r}
  /\ UNCHANGED <<kind, sockets, aborted, table, mail, device, bounds, history, answers>>

\* The host refuses the row.
StoreRefused(r) ==
  /\ fiber[r] = "storing" /\ Fault
  /\ AnsweredAtOnce(r)
  /\ fiber' = [fiber EXCEPT ![r] = "over"]
  /\ UNCHANGED <<kind, sockets, to, aborted, remembered, table, mail, device, restarts, history>>

\* The row is stored, but the request is aborted or the frame cannot be sent:
\* the route is cancelled in the same stretch.
StoredInVain(r) ==
  /\ fiber[r] = "storing"
  /\ \/ r \in aborted /\ UNCHANGED faults
     \/ ~Open(to[r]) /\ UNCHANGED faults
     \/ Fault
  /\ AnsweredAtOnce(r)
  /\ fiber' = [fiber EXCEPT ![r] = "over"]
  /\ timers' = timers \cup {r}
  /\ UNCHANGED <<kind, sockets, to, aborted, remembered, route, mail, device, restarts, history>>

\* The row and the route are stored and the request is sent, perhaps over a
\* connection that is gone. The call of a fetch stays open.
Stored(r) ==
  /\ fiber[r] = "storing" /\ r \notin aborted
  /\ fiber' = [fiber EXCEPT ![r] = IF kind[r] = "fetch" THEN "waiting" ELSE "over"]
  /\ timers' = timers \cup {r}
  /\ route' = [route EXCEPT ![r] = to[r]]
  /\ work' = [work EXCEPT ![r] = IF Open(to[r]) THEN "working" ELSE "none"]
  /\ UNCHANGED <<kind, sockets, to, aborted, remembered, mail, told, bounds, history, answers>>

-----------------------------------------------------------------------------
(* What ends it. *)

DeviceAnswers(r) ==
  /\ work[r] = "working"
  /\ work' = [work EXCEPT ![r] = "answered"]
  /\ UNCHANGED <<kind, sockets, memory, table, mail, told, bounds, history, answers>>

DeviceStops(r) ==
  /\ work[r] = "working" /\ r \in told
  /\ work' = [work EXCEPT ![r] = "over"]
  /\ UNCHANGED <<kind, sockets, memory, table, mail, told, bounds, history, answers>>

\* handleRes: an answer counts while its route is there and its connection is
\* a connected one of the device. A malformed body is an answer too.
ReplyArrives(r) ==
  /\ work[r] = "answered"
  /\ work' = [work EXCEPT ![r] = "over"]
  /\ Delivered({r} \cap {q \in Requests : Routed(q) /\ link[to[q]] \in {"open", "dropped"}})
  /\ UNCHANGED <<kind, sockets, to, aborted, remembered, timers, told, bounds, history>>

\* Mutant of TimerFires: the origin is not told.
ExpiresSilently(r) ==
  /\ r \in timers /\ fiber[r] # "storing"
  /\ timers' = timers \ {r}
  /\ route' = [route EXCEPT ![r] = None]
  /\ Stops({r} \cap {q \in Requests : Routed(q)})
  /\ UNCHANGED <<kind, sockets, memory, mail, work, bounds, history, answers>>

\* onRouteExpired. A route lives longer than it takes to store it.
TimerFires(r) ==
  /\ r \in timers /\ fiber[r] # "storing"
  /\ timers' = timers \ {r}
  /\ LET expired == {r} \cap {q \in Requests : Routed(q)}
     IN Stops(expired) /\ Delivered(expired)
  /\ UNCHANGED <<kind, sockets, to, aborted, remembered, work, bounds, history>>

\* handleRequestCancel, cancelProcessRequests: cancelRequest. A handler that
\* stores its route is aborted.
CancelStoring(r) ==
  /\ fiber[r] = "storing"
  /\ aborted' = aborted \cup {r}
  /\ UNCHANGED <<fiber, remembered, route, told, quieted, answers>>

\* The open call of a fetch is rejected, its route cancelled, its device told.
CancelFetch(r) ==
  /\ fiber[r] = "waiting"
  /\ fiber' = [fiber EXCEPT ![r] = "over"]
  /\ route' = [route EXCEPT ![r] = None]
  /\ Stops({r})
  /\ Counted({r})
  /\ UNCHANGED <<aborted, remembered, quieted>>

\* A route of the origin is removed; the origin hears no more of it.
CancelRouted(r) ==
  /\ fiber[r] = "over" /\ kind[r] # "fetch" /\ Routed(r)
  /\ route' = [route EXCEPT ![r] = None]
  /\ Stops({r})
  /\ quieted' = quieted \cup {r}
  /\ UNCHANGED <<fiber, aborted, remembered, answers>>

\* Nothing is known of the request: a process's cancellation is remembered.
\* A fetch whose call was lost with the Kernel keeps its route.
CancelUnknown(r) ==
  /\ fiber[r] \in {"new", "over"}
  /\ kind[r] = "fetch" \/ ~Routed(r)
  /\ remembered' = IF kind[r] = "connection" \/ Routed(r) THEN remembered
                   ELSE remembered \cup {r}
  /\ UNCHANGED <<fiber, aborted, route, told, quieted, answers>>

Cancel(r) ==
  /\ r \notin cancelled /\ cancelled' = cancelled \cup {r}
  /\ kind[r] = "connection" => client /\ fiber[r] # "new"
  /\ CancelStoring(r) \/ CancelFetch(r) \/ CancelRouted(r) \/ CancelUnknown(r)
  /\ UNCHANGED <<kind, sockets, to, timers, mail, work, bounds, forgotten, unheard>>

\* PROCESS_REQUEST_CANCEL_TTL_MS passes, or newer cancellations evict it.
Forgets(r) ==
  /\ r \in remembered
  /\ remembered' = remembered \ {r}
  /\ forgotten' = forgotten \cup {r}
  /\ UNCHANGED <<kind, sockets, fiber, to, aborted, table, mail, device, bounds, cancelled,
                 quieted, unheard, answers>>

\* sendFrameToProcess returns, or it fails, which is only logged.
MailArrives(r) ==
  /\ r \in mail /\ mail' = mail \ {r}
  /\ Counted({r})
  /\ UNCHANGED <<kind, sockets, memory, table, device, bounds, history>>

MailLost(r) ==
  /\ r \in mail /\ mail' = mail \ {r}
  /\ Fault
  /\ unheard' = unheard \cup {r}
  /\ UNCHANGED <<kind, sockets, memory, table, device, restarts, cancelled, forgotten, quieted,
                 answers>>

-----------------------------------------------------------------------------
(* Connections. *)

\* activateConnection: with a client id, older connections are replaced.
DeviceConnects(d) ==
  /\ link[d] = "new"
  /\ \E replaces \in BOOLEAN :
       link' = [e \in Drivers |-> IF e = d THEN "open"
                                  ELSE IF replaces /\ Open(e) THEN "superseded" ELSE link[e]]
  /\ UNCHANGED <<kind, client, memory, table, mail, device, bounds, history, answers>>

\* The device does not go on with what came over a connection that is gone.
Interrupted(D) ==
  work' = [r \in Requests |-> IF to[r] \in D /\ work[r] # "none" THEN "over" ELSE work[r]]

\* onClose: the last connection fails every route of the device, another one
\* or a superseded one its own.
DeviceCloses(d) ==
  /\ link[d] \in {"open", "superseded", "dropped"}
  /\ link' = [link EXCEPT ![d] = "closed"]
  /\ Interrupted({d})
  /\ IF link[d] # "superseded" /\ \A e \in Drivers \ {d} : ~Open(e)
       THEN Delivered({r \in Requests : Routed(r)})
       ELSE Delivered(RoutedTo(d))
  /\ UNCHANGED <<kind, client, to, aborted, remembered, timers, told, bounds, history>>

\* disconnectDeviceConnections, after sys.device.delete.
DeviceForgotten ==
  /\ \E d \in Drivers : Open(d)
  /\ link' = [d \in Drivers |-> IF Open(d) THEN "dropped" ELSE link[d]]
  /\ Delivered({r \in Requests : Routed(r)})
  /\ UNCHANGED <<kind, client, to, aborted, remembered, timers, device, bounds, history>>

\* onClose of the client: its handlers are aborted, its routes removed.
ClientCloses ==
  /\ client /\ client' = FALSE
  /\ LET mine == {r \in Requests : kind[r] = "connection"}
         routed == {r \in mine : Routed(r)} IN
       /\ aborted' = aborted \cup {r \in mine : fiber[r] = "storing"}
       /\ route' = [r \in Requests |-> IF r \in routed THEN None ELSE route[r]]
       /\ Stops(routed)
       /\ quieted' = quieted \cup routed
  /\ UNCHANGED <<kind, link, fiber, to, remembered, timers, mail, work, bounds, cancelled,
                 forgotten, unheard, answers>>

\* The Kernel restarts: handlers and cancellations are gone, rehydrateConnections
\* lists the sockets that are left; nobody hears of the others' close.
Restart ==
  /\ restarts < MaxRestarts /\ restarts' = restarts + 1
  /\ unheard' = unheard \cup {r \in Requests : fiber[r] \in {"storing", "waiting"}}
  /\ fiber' = [r \in Requests |-> IF fiber[r] = "new" THEN "new" ELSE "over"]
  /\ aborted' = {} /\ remembered' = {}
  /\ forgotten' = forgotten \cup remembered
  /\ \E gone \in SUBSET {d \in Drivers : link[d] # "new"} :
       /\ link' = [d \in Drivers |-> IF d \in gone THEN "closed" ELSE link[d]]
       /\ Interrupted(gone)
  /\ client' \in {client, FALSE}
  /\ UNCHANGED <<kind, to, table, mail, told, faults, cancelled, quieted, answers>>

Handles(r) == StoreRefused(r) \/ StoredInVain(r) \/ Stored(r)

Device(r) == DeviceAnswers(r) \/ DeviceStops(r) \/ ReplyArrives(r)

Mail(r) == MailArrives(r) \/ MailLost(r)

Next ==
  \/ \E r \in Requests : AskInVain(r) \/ Ask(r) \/ Handles(r) \/ Device(r) \/ TimerFires(r)
                         \/ Cancel(r) \/ Forgets(r) \/ Mail(r)
  \/ \E d \in Drivers : DeviceConnects(d) \/ DeviceCloses(d)
  \/ DeviceForgotten \/ ClientCloses \/ Restart

Spec == Init /\ [][Next]_vars

\* Calls of the host and of processes return, rows fire. A device may be silent.
Fairness == \A r \in Requests : WF_vars(Handles(r)) /\ WF_vars(TimerFires(r)) /\ WF_vars(Mail(r))

FairSpec == Spec /\ Fairness

-----------------------------------------------------------------------------
\* Every variable keeps its type.
TypeOK ==
  /\ kind \in [Requests -> Kinds]
  /\ client \in BOOLEAN
  /\ link \in [Drivers -> {"new", "open", "superseded", "dropped", "closed"}]
  /\ fiber \in [Requests -> {"new", "storing", "waiting", "over"}]
  /\ to \in [Requests -> Drivers \cup {None}]
  /\ {aborted, remembered, timers, mail, told} \subseteq SUBSET Requests
  /\ route \in [Requests -> Drivers \cup {None}]
  /\ work \in [Requests -> {"none", "working", "answered", "over"}]
  /\ faults \in Nat /\ restarts \in Nat
  /\ {cancelled, forgotten, quieted, unheard} \subseteq SUBSET Requests
  /\ answers \in [Requests -> Nat]

\* A request ends once for its origin, whichever of the late reply, the expiry,
\* the disconnect of a replaced or of the last connection, the deletion of the
\* device, the cancellation and the restart come together: it gets one answer,
\* or none after a cancellation that removed its route.
OneEnd ==
  \A r \in Requests : answers[r] + (IF r \in quieted THEN 1 ELSE 0)
                                 + (IF r \in unheard THEN 1 ELSE 0) <= 1

\* A device does not work for nobody: what it does over a connection the Kernel
\* still lists has a route that waits for the answer, or the device was told to
\* stop.
NoIdleWork ==
  \A r \in Requests :
    work[r] = "working" /\ Open(to[r]) => Routed(r) \/ r \in told

\* A cancelled request does not begin later, be it that the cancellation came
\* before the request or while its route was being stored, as long as the
\* Kernel remembers the cancellation.
CancelHolds ==
  [][\A r \in cancelled \ forgotten : work[r] = "none" => work'[r] = "none"]_vars

\* A request that was forwarded ends, whatever the device does: it is answered,
\* cancelled, or its origin has gone or has lost its call.
RequestsEnd ==
  \A r \in Requests :
    fiber[r] = "storing" ~> \/ answers[r] > 0
                            \/ r \in quieted \cup unheard
                            \/ kind[r] = "connection" /\ ~client

=============================================================================

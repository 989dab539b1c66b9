------------------------ MODULE DeviceRequestsProofs ------------------------
(***************************************************************************)
(* Proofs about DeviceRequests, for any number of requests, connections,   *)
(* faults and restarts: a request ends once for its origin and is pursued  *)
(* until it does, a device is not left working for nobody, and a cancelled *)
(* request does not begin.                                                 *)
(*                                                                         *)
(* The invariant IInv says what the stage of a request, its route and what *)
(* its origin heard tell of one another. Placed: routes and work follow    *)
(* the connection that was chosen. Unended: whatever may still end the     *)
(* request finds it not ended yet. Pursued: something will end it.         *)
(* Remembers: where a cancellation is kept until the request would begin.  *)
(***************************************************************************)
EXTENDS DeviceRequests, TLAPS

\* A request is placed on a connection that was there, and routed nowhere else.
Placed ==
  \A r \in Requests :
    /\ fiber[r] = "new" => to[r] = None
    /\ fiber[r] = "storing" => to[r] \in Drivers
    /\ to[r] # None => link[to[r]] # "new"
    /\ Routed(r) => route[r] = to[r]
    /\ fiber[r] \in {"new", "storing"} => ~Routed(r) /\ work[r] = "none"
    /\ work[r] # "none" => to[r] # None

\* Handler, route and mail: each can end the request, which has not ended yet.
Unended ==
  \A r \in Requests :
    /\ fiber[r] \in {"new", "storing", "waiting"} =>
         answers[r] = 0 /\ r \notin quieted \cup unheard \cup mail
    /\ fiber[r] = "waiting" => kind[r] = "fetch" /\ Routed(r)
    /\ Routed(r) => answers[r] = 0 /\ r \notin quieted \cup mail
    /\ Routed(r) /\ kind[r] # "fetch" => r \notin unheard
    /\ r \in mail => kind[r] = "process" /\ answers[r] = 0 /\ r \notin quieted \cup unheard

\* A cancellation that came in time is in memory.
Remembers ==
  \A r \in cancelled \ forgotten :
    /\ fiber[r] = "new" => r \in remembered
    /\ fiber[r] = "storing" => r \in aborted

\* The request has ended for its origin, or the origin is gone.
Ended(r) ==
  \/ answers[r] > 0
  \/ r \in quieted \cup unheard
  \/ kind[r] = "connection" /\ ~client

\* A request that is past its handler's awaits has ended, or an answer for it is on
\* its way, or it has a route, whose row will fire.
Pursued ==
  \A r \in Requests :
    /\ Routed(r) => r \in timers
    /\ fiber[r] \in {"waiting", "over"} => Ended(r) \/ Routed(r) \/ r \in mail
    /\ fiber[r] = "over" /\ kind[r] = "fetch" => Ended(r)

IInv == TypeOK /\ Placed /\ Unended /\ Pursued /\ OneEnd /\ NoIdleWork /\ Remembers

-----------------------------------------------------------------------------
\* Every step keeps the types.
LEMMA TypeOKKept ==
  ASSUME TypeOK, [Next]_vars
  PROVE  TypeOK'
<1> USE RequestsAssumption DEF TypeOK, Kinds
<1>1. ASSUME NEW r \in Requests, AskInVain(r)
      PROVE  TypeOK'
  BY <1>1 DEF AskInVain, Arrives, AnsweredAtOnce, Counted, Refused, sockets, memory, table,
    device, history, bounds
<1>2. ASSUME NEW r \in Requests, Ask(r)
      PROVE  TypeOK'
  BY <1>2 DEF Ask, Arrives, Refused, sockets, memory, table, device, history, bounds
<1>3. ASSUME NEW r \in Requests, StoreRefused(r)
      PROVE  TypeOK'
  BY <1>3 DEF StoreRefused, AnsweredAtOnce, Counted, Fault, sockets, memory, table, device,
    history, bounds
<1>4. ASSUME NEW r \in Requests, StoredInVain(r)
      PROVE  TypeOK'
  BY <1>4 DEF StoredInVain, AnsweredAtOnce, Counted, Fault, sockets, memory, table, device,
    history, bounds
<1>5. ASSUME NEW r \in Requests, Stored(r)
      PROVE  TypeOK'
  BY <1>5 DEF Stored, sockets, memory, table, device, history, bounds
<1>6. ASSUME NEW r \in Requests, DeviceAnswers(r)
      PROVE  TypeOK'
  BY <1>6 DEF DeviceAnswers, sockets, memory, table, device, history, bounds
<1>7. ASSUME NEW r \in Requests, DeviceStops(r)
      PROVE  TypeOK'
  BY <1>7 DEF DeviceStops, sockets, memory, table, device, history, bounds
<1>8. ASSUME NEW r \in Requests, ReplyArrives(r)
      PROVE  TypeOK'
  BY <1>8 DEF ReplyArrives, Delivered, Counted, Hears, sockets, memory, table, device, history,
    bounds
<1>9. ASSUME NEW r \in Requests, TimerFires(r)
      PROVE  TypeOK'
  BY <1>9 DEF TimerFires, Stops, Delivered, Counted, Hears, sockets, memory, table, device,
    history, bounds
<1>10. ASSUME NEW r \in Requests, Cancel(r)
      PROVE  TypeOK'
  BY <1>10 DEF Cancel, CancelStoring, CancelFetch, CancelRouted, CancelUnknown, Stops, Counted,
    sockets, memory, table, device, history, bounds
<1>11. ASSUME NEW r \in Requests, Forgets(r)
      PROVE  TypeOK'
  BY <1>11 DEF Forgets, sockets, memory, table, device, history, bounds
<1>12. ASSUME NEW r \in Requests, MailArrives(r)
      PROVE  TypeOK'
  BY <1>12 DEF MailArrives, Counted, sockets, memory, table, device, history, bounds
<1>13. ASSUME NEW r \in Requests, MailLost(r)
      PROVE  TypeOK'
  BY <1>13 DEF MailLost, Fault, sockets, memory, table, device, history, bounds
<1>14. ASSUME NEW d \in Drivers, DeviceConnects(d)
      PROVE  TypeOK'
  BY <1>14 DEF DeviceConnects, sockets, memory, table, device, history, bounds
<1>15. ASSUME NEW d \in Drivers, DeviceCloses(d)
      PROVE  TypeOK'
  BY <1>15 DEF DeviceCloses, Interrupted, RoutedTo, Delivered, Counted, Hears, sockets, memory,
    table, device, history, bounds
<1>16. ASSUME DeviceForgotten
      PROVE  TypeOK'
  BY <1>16 DEF DeviceForgotten, Delivered, Counted, Hears, sockets, memory, table, device,
    history, bounds
<1>17. ASSUME ClientCloses
      PROVE  TypeOK'
  <2>1. client' \in BOOLEAN /\ aborted' \subseteq Requests /\ quieted' \subseteq Requests
    BY <1>17 DEF ClientCloses
  <2>2. route' \in [Requests -> Drivers \cup {None}]
    BY <1>17 DEF ClientCloses
  <2>3. told' \subseteq Requests
    BY <1>17 DEF ClientCloses, Stops
  <2> QED
    BY <1>17, <2>1, <2>2, <2>3 DEF ClientCloses, Stops, bounds
<1>18. ASSUME Restart
      PROVE  TypeOK'
  <2>1. link' \in [Drivers -> {"new", "open", "superseded", "dropped", "closed"}]
    BY <1>18 DEF Restart
  <2>2. work' \in [Requests -> {"none", "working", "answered", "over"}]
    BY <1>18 DEF Restart, Interrupted
  <2>3. fiber' \in [Requests -> {"new", "storing", "waiting", "over"}]
    BY <1>18 DEF Restart
  <2>4. unheard' \subseteq Requests
    BY <1>18 DEF Restart
  <2>5. forgotten' \subseteq Requests
    BY <1>18 DEF Restart
  <2>6. aborted' = {} /\ remembered' = {} /\ restarts' \in Nat
    BY <1>18 DEF Restart
  <2>7. client' \in BOOLEAN
    <3>1. client' = client \/ client' = FALSE
      BY <1>18 DEF Restart
    <3> QED
      BY <3>1
  <2>8. UNCHANGED <<kind, to, route, timers, mail, told, faults, cancelled, quieted, answers>>
    BY <1>18 DEF Restart, table
  <2> QED
    BY <2>1, <2>2, <2>3, <2>4, <2>5, <2>6, <2>7, <2>8
<1>19. ASSUME UNCHANGED vars
      PROVE  TypeOK'
  BY <1>19 DEF vars, sockets, memory, table, device, history, bounds
<1> QED
  BY <1>1, <1>2, <1>3, <1>4, <1>5, <1>6, <1>7, <1>8, <1>9, <1>10, <1>11, <1>12,
    <1>13, <1>14, <1>15, <1>16, <1>17, <1>18, <1>19 DEF Next, Handles, Device, Mail

\* A route follows the connection the request was sent over.
LEMMA PlacedKept ==
  ASSUME TypeOK, Placed, [Next]_vars
  PROVE  Placed'
<1> USE RequestsAssumption DEF TypeOK, Placed, Routed, Open
<1>1. ASSUME NEW r \in Requests, AskInVain(r)
      PROVE  Placed'
  BY <1>1 DEF AskInVain, Arrives, AnsweredAtOnce, Counted, Refused, sockets, memory, table,
    device, history, bounds
<1>2. ASSUME NEW r \in Requests, Ask(r)
      PROVE  Placed'
  BY <1>2 DEF Ask, Arrives, Refused, sockets, memory, table, device, history, bounds
<1>3. ASSUME NEW r \in Requests, StoreRefused(r)
      PROVE  Placed'
  BY <1>3 DEF StoreRefused, AnsweredAtOnce, Counted, Fault, sockets, memory, table, device,
    history, bounds
<1>4. ASSUME NEW r \in Requests, StoredInVain(r)
      PROVE  Placed'
  BY <1>4 DEF StoredInVain, AnsweredAtOnce, Counted, Fault, sockets, memory, table, device,
    history, bounds
<1>5. ASSUME NEW r \in Requests, Stored(r)
      PROVE  Placed'
  BY <1>5 DEF Stored, sockets, memory, table, device, history, bounds
<1>6. ASSUME NEW r \in Requests, DeviceAnswers(r)
      PROVE  Placed'
  BY <1>6 DEF DeviceAnswers, sockets, memory, table, device, history, bounds
<1>7. ASSUME NEW r \in Requests, DeviceStops(r)
      PROVE  Placed'
  BY <1>7 DEF DeviceStops, sockets, memory, table, device, history, bounds
<1>8. ASSUME NEW r \in Requests, ReplyArrives(r)
      PROVE  Placed'
  BY <1>8 DEF ReplyArrives, Delivered, Counted, Hears, sockets, memory, table, device, history,
    bounds
<1>9. ASSUME NEW r \in Requests, TimerFires(r)
      PROVE  Placed'
  BY <1>9 DEF TimerFires, Stops, Delivered, Counted, Hears, sockets, memory, table, device,
    history, bounds
<1>10. ASSUME NEW r \in Requests, Cancel(r)
      PROVE  Placed'
  BY <1>10 DEF Cancel, CancelStoring, CancelFetch, CancelRouted, CancelUnknown, Stops, Counted,
    sockets, memory, table, device, history, bounds
<1>11. ASSUME NEW r \in Requests, Forgets(r)
      PROVE  Placed'
  BY <1>11 DEF Forgets, sockets, memory, table, device, history, bounds
<1>12. ASSUME NEW r \in Requests, MailArrives(r)
      PROVE  Placed'
  BY <1>12 DEF MailArrives, Counted, sockets, memory, table, device, history, bounds
<1>13. ASSUME NEW r \in Requests, MailLost(r)
      PROVE  Placed'
  BY <1>13 DEF MailLost, Fault, sockets, memory, table, device, history, bounds
<1>14. ASSUME NEW d \in Drivers, DeviceConnects(d)
      PROVE  Placed'
  BY <1>14 DEF DeviceConnects, sockets, memory, table, device, history, bounds
<1>15. ASSUME NEW d \in Drivers, DeviceCloses(d)
      PROVE  Placed'
  BY <1>15 DEF DeviceCloses, Interrupted, RoutedTo, Delivered, Counted, Hears, sockets, memory,
    table, device, history, bounds
<1>16. ASSUME DeviceForgotten
      PROVE  Placed'
  BY <1>16 DEF DeviceForgotten, Delivered, Counted, Hears, sockets, memory, table, device,
    history, bounds
<1>17. ASSUME ClientCloses
      PROVE  Placed'
  BY <1>17 DEF ClientCloses, Stops, sockets, memory, table, device, history, bounds
<1>18. ASSUME Restart
      PROVE  Placed'
  BY <1>18 DEF Restart, Interrupted, sockets, memory, table, device, history, bounds
<1>19. ASSUME UNCHANGED vars
      PROVE  Placed'
  BY <1>19 DEF vars, sockets, memory, table, device, history, bounds
<1> QED
  BY <1>1, <1>2, <1>3, <1>4, <1>5, <1>6, <1>7, <1>8, <1>9, <1>10, <1>11, <1>12,
    <1>13, <1>14, <1>15, <1>16, <1>17, <1>18, <1>19 DEF Next, Handles, Device, Mail

\* Whatever ends a request takes away what else could.
LEMMA UnendedKept ==
  ASSUME TypeOK, Placed, Unended, [Next]_vars
  PROVE  Unended'
<1> USE RequestsAssumption DEF TypeOK, Placed, Unended, Routed, Open
<1>1. ASSUME NEW r \in Requests, AskInVain(r)
      PROVE  Unended'
  BY <1>1 DEF AskInVain, Arrives, AnsweredAtOnce, Counted, Refused, sockets, memory, table,
    device, history, bounds
<1>2. ASSUME NEW r \in Requests, Ask(r)
      PROVE  Unended'
  BY <1>2 DEF Ask, Arrives, Refused, sockets, memory, table, device, history, bounds
<1>3. ASSUME NEW r \in Requests, StoreRefused(r)
      PROVE  Unended'
  BY <1>3 DEF StoreRefused, AnsweredAtOnce, Counted, Fault, sockets, memory, table, device,
    history, bounds
<1>4. ASSUME NEW r \in Requests, StoredInVain(r)
      PROVE  Unended'
  BY <1>4 DEF StoredInVain, AnsweredAtOnce, Counted, Fault, sockets, memory, table, device,
    history, bounds
<1>5. ASSUME NEW r \in Requests, Stored(r)
      PROVE  Unended'
  BY <1>5 DEF Stored, sockets, memory, table, device, history, bounds
<1>6. ASSUME NEW r \in Requests, DeviceAnswers(r)
      PROVE  Unended'
  BY <1>6 DEF DeviceAnswers, sockets, memory, table, device, history, bounds
<1>7. ASSUME NEW r \in Requests, DeviceStops(r)
      PROVE  Unended'
  BY <1>7 DEF DeviceStops, sockets, memory, table, device, history, bounds
<1>8. ASSUME NEW r \in Requests, ReplyArrives(r)
      PROVE  Unended'
  BY <1>8 DEF ReplyArrives, Delivered, Counted, Hears, sockets, memory, table, device, history,
    bounds
<1>9. ASSUME NEW r \in Requests, TimerFires(r)
      PROVE  Unended'
  BY <1>9 DEF TimerFires, Stops, Delivered, Counted, Hears, sockets, memory, table, device,
    history, bounds
<1>10. ASSUME NEW r \in Requests, Cancel(r)
      PROVE  Unended'
  BY <1>10 DEF Cancel, CancelStoring, CancelFetch, CancelRouted, CancelUnknown, Stops, Counted,
    sockets, memory, table, device, history, bounds
<1>11. ASSUME NEW r \in Requests, Forgets(r)
      PROVE  Unended'
  BY <1>11 DEF Forgets, sockets, memory, table, device, history, bounds
<1>12. ASSUME NEW r \in Requests, MailArrives(r)
      PROVE  Unended'
  BY <1>12 DEF MailArrives, Counted, sockets, memory, table, device, history, bounds
<1>13. ASSUME NEW r \in Requests, MailLost(r)
      PROVE  Unended'
  BY <1>13 DEF MailLost, Fault, sockets, memory, table, device, history, bounds
<1>14. ASSUME NEW d \in Drivers, DeviceConnects(d)
      PROVE  Unended'
  BY <1>14 DEF DeviceConnects, sockets, memory, table, device, history, bounds
<1>15. ASSUME NEW d \in Drivers, DeviceCloses(d)
      PROVE  Unended'
  BY <1>15 DEF DeviceCloses, Interrupted, RoutedTo, Delivered, Counted, Hears, sockets, memory,
    table, device, history, bounds
<1>16. ASSUME DeviceForgotten
      PROVE  Unended'
  BY <1>16 DEF DeviceForgotten, Delivered, Counted, Hears, sockets, memory, table, device,
    history, bounds
<1>17. ASSUME ClientCloses
      PROVE  Unended'
  BY <1>17 DEF ClientCloses, Stops, sockets, memory, table, device, history, bounds
<1>18. ASSUME Restart
      PROVE  Unended'
  BY <1>18 DEF Restart, Interrupted, sockets, memory, table, device, history, bounds
<1>19. ASSUME UNCHANGED vars
      PROVE  Unended'
  BY <1>19 DEF vars, sockets, memory, table, device, history, bounds
<1> QED
  BY <1>1, <1>2, <1>3, <1>4, <1>5, <1>6, <1>7, <1>8, <1>9, <1>10, <1>11, <1>12,
    <1>13, <1>14, <1>15, <1>16, <1>17, <1>18, <1>19 DEF Next, Handles, Device, Mail

\* A request is ended only by a step that finds it not ended.
LEMMA OneEndKept ==
  ASSUME TypeOK, Placed, Unended, OneEnd, [Next]_vars
  PROVE  OneEnd'
<1> USE RequestsAssumption DEF TypeOK, Placed, Unended, OneEnd, Routed, Open
<1>1. ASSUME NEW r \in Requests, AskInVain(r)
      PROVE  OneEnd'
  BY <1>1 DEF AskInVain, Arrives, AnsweredAtOnce, Counted, Refused, sockets, memory, table,
    device, history, bounds
<1>2. ASSUME NEW r \in Requests, Ask(r)
      PROVE  OneEnd'
  BY <1>2 DEF Ask, Arrives, Refused, sockets, memory, table, device, history, bounds
<1>3. ASSUME NEW r \in Requests, StoreRefused(r)
      PROVE  OneEnd'
  BY <1>3 DEF StoreRefused, AnsweredAtOnce, Counted, Fault, sockets, memory, table, device,
    history, bounds
<1>4. ASSUME NEW r \in Requests, StoredInVain(r)
      PROVE  OneEnd'
  BY <1>4 DEF StoredInVain, AnsweredAtOnce, Counted, Fault, sockets, memory, table, device,
    history, bounds
<1>5. ASSUME NEW r \in Requests, Stored(r)
      PROVE  OneEnd'
  BY <1>5 DEF Stored, sockets, memory, table, device, history, bounds
<1>6. ASSUME NEW r \in Requests, DeviceAnswers(r)
      PROVE  OneEnd'
  BY <1>6 DEF DeviceAnswers, sockets, memory, table, device, history, bounds
<1>7. ASSUME NEW r \in Requests, DeviceStops(r)
      PROVE  OneEnd'
  BY <1>7 DEF DeviceStops, sockets, memory, table, device, history, bounds
<1>8. ASSUME NEW r \in Requests, ReplyArrives(r)
      PROVE  OneEnd'
  BY <1>8 DEF ReplyArrives, Delivered, Counted, Hears, sockets, memory, table, device, history,
    bounds
<1>9. ASSUME NEW r \in Requests, TimerFires(r)
      PROVE  OneEnd'
  BY <1>9 DEF TimerFires, Stops, Delivered, Counted, Hears, sockets, memory, table, device,
    history, bounds
<1>10. ASSUME NEW r \in Requests, Cancel(r)
      PROVE  OneEnd'
  BY <1>10 DEF Cancel, CancelStoring, CancelFetch, CancelRouted, CancelUnknown, Stops, Counted,
    sockets, memory, table, device, history, bounds
<1>11. ASSUME NEW r \in Requests, Forgets(r)
      PROVE  OneEnd'
  BY <1>11 DEF Forgets, sockets, memory, table, device, history, bounds
<1>12. ASSUME NEW r \in Requests, MailArrives(r)
      PROVE  OneEnd'
  BY <1>12 DEF MailArrives, Counted, sockets, memory, table, device, history, bounds
<1>13. ASSUME NEW r \in Requests, MailLost(r)
      PROVE  OneEnd'
  BY <1>13 DEF MailLost, Fault, sockets, memory, table, device, history, bounds
<1>14. ASSUME NEW d \in Drivers, DeviceConnects(d)
      PROVE  OneEnd'
  BY <1>14 DEF DeviceConnects, sockets, memory, table, device, history, bounds
<1>15. ASSUME NEW d \in Drivers, DeviceCloses(d)
      PROVE  OneEnd'
  BY <1>15 DEF DeviceCloses, Interrupted, RoutedTo, Delivered, Counted, Hears, sockets, memory,
    table, device, history, bounds
<1>16. ASSUME DeviceForgotten
      PROVE  OneEnd'
  BY <1>16 DEF DeviceForgotten, Delivered, Counted, Hears, sockets, memory, table, device,
    history, bounds
<1>17. ASSUME ClientCloses
      PROVE  OneEnd'
  BY <1>17 DEF ClientCloses, Stops, sockets, memory, table, device, history, bounds
<1>18. ASSUME Restart
      PROVE  OneEnd'
  BY <1>18 DEF Restart, Interrupted, sockets, memory, table, device, history, bounds
<1>19. ASSUME UNCHANGED vars
      PROVE  OneEnd'
  BY <1>19 DEF vars, sockets, memory, table, device, history, bounds
<1> QED
  BY <1>1, <1>2, <1>3, <1>4, <1>5, <1>6, <1>7, <1>8, <1>9, <1>10, <1>11, <1>12,
    <1>13, <1>14, <1>15, <1>16, <1>17, <1>18, <1>19 DEF Next, Handles, Device, Mail

\* A route of a working device goes only with a word to the device or with its connection.
LEMMA NoIdleWorkKept ==
  ASSUME TypeOK, Placed, Unended, NoIdleWork, [Next]_vars
  PROVE  NoIdleWork'
<1> USE RequestsAssumption DEF TypeOK, Placed, Unended, NoIdleWork, Routed, Open
<1>1. ASSUME NEW r \in Requests, AskInVain(r)
      PROVE  NoIdleWork'
  BY <1>1 DEF AskInVain, Arrives, AnsweredAtOnce, Counted, Refused, sockets, memory, table,
    device, history, bounds
<1>2. ASSUME NEW r \in Requests, Ask(r)
      PROVE  NoIdleWork'
  BY <1>2 DEF Ask, Arrives, Refused, sockets, memory, table, device, history, bounds
<1>3. ASSUME NEW r \in Requests, StoreRefused(r)
      PROVE  NoIdleWork'
  BY <1>3 DEF StoreRefused, AnsweredAtOnce, Counted, Fault, sockets, memory, table, device,
    history, bounds
<1>4. ASSUME NEW r \in Requests, StoredInVain(r)
      PROVE  NoIdleWork'
  BY <1>4 DEF StoredInVain, AnsweredAtOnce, Counted, Fault, sockets, memory, table, device,
    history, bounds
<1>5. ASSUME NEW r \in Requests, Stored(r)
      PROVE  NoIdleWork'
  BY <1>5 DEF Stored, sockets, memory, table, device, history, bounds
<1>6. ASSUME NEW r \in Requests, DeviceAnswers(r)
      PROVE  NoIdleWork'
  BY <1>6 DEF DeviceAnswers, sockets, memory, table, device, history, bounds
<1>7. ASSUME NEW r \in Requests, DeviceStops(r)
      PROVE  NoIdleWork'
  BY <1>7 DEF DeviceStops, sockets, memory, table, device, history, bounds
<1>8. ASSUME NEW r \in Requests, ReplyArrives(r)
      PROVE  NoIdleWork'
  BY <1>8 DEF ReplyArrives, Delivered, Counted, Hears, sockets, memory, table, device, history,
    bounds
<1>9. ASSUME NEW r \in Requests, TimerFires(r)
      PROVE  NoIdleWork'
  BY <1>9 DEF TimerFires, Stops, Delivered, Counted, Hears, sockets, memory, table, device,
    history, bounds
<1>10. ASSUME NEW r \in Requests, Cancel(r)
      PROVE  NoIdleWork'
  BY <1>10 DEF Cancel, CancelStoring, CancelFetch, CancelRouted, CancelUnknown, Stops, Counted,
    sockets, memory, table, device, history, bounds
<1>11. ASSUME NEW r \in Requests, Forgets(r)
      PROVE  NoIdleWork'
  BY <1>11 DEF Forgets, sockets, memory, table, device, history, bounds
<1>12. ASSUME NEW r \in Requests, MailArrives(r)
      PROVE  NoIdleWork'
  BY <1>12 DEF MailArrives, Counted, sockets, memory, table, device, history, bounds
<1>13. ASSUME NEW r \in Requests, MailLost(r)
      PROVE  NoIdleWork'
  BY <1>13 DEF MailLost, Fault, sockets, memory, table, device, history, bounds
<1>14. ASSUME NEW d \in Drivers, DeviceConnects(d)
      PROVE  NoIdleWork'
  BY <1>14 DEF DeviceConnects, sockets, memory, table, device, history, bounds
<1>15. ASSUME NEW d \in Drivers, DeviceCloses(d)
      PROVE  NoIdleWork'
  BY <1>15 DEF DeviceCloses, Interrupted, RoutedTo, Delivered, Counted, Hears, sockets, memory,
    table, device, history, bounds
<1>16. ASSUME DeviceForgotten
      PROVE  NoIdleWork'
  BY <1>16 DEF DeviceForgotten, Delivered, Counted, Hears, sockets, memory, table, device,
    history, bounds
<1>17. ASSUME ClientCloses
      PROVE  NoIdleWork'
  BY <1>17 DEF ClientCloses, Stops, sockets, memory, table, device, history, bounds
<1>18. ASSUME Restart
      PROVE  NoIdleWork'
  BY <1>18 DEF Restart, Interrupted, sockets, memory, table, device, history, bounds
<1>19. ASSUME UNCHANGED vars
      PROVE  NoIdleWork'
  BY <1>19 DEF vars, sockets, memory, table, device, history, bounds
<1> QED
  BY <1>1, <1>2, <1>3, <1>4, <1>5, <1>6, <1>7, <1>8, <1>9, <1>10, <1>11, <1>12,
    <1>13, <1>14, <1>15, <1>16, <1>17, <1>18, <1>19 DEF Next, Handles, Device, Mail

\* A cancellation is forgotten with notice only.
LEMMA RemembersKept ==
  ASSUME TypeOK, Placed, Remembers, [Next]_vars
  PROVE  Remembers'
<1> USE RequestsAssumption DEF TypeOK, Placed, Remembers, Routed, Open
<1>1. ASSUME NEW r \in Requests, AskInVain(r)
      PROVE  Remembers'
  BY <1>1 DEF AskInVain, Arrives, AnsweredAtOnce, Counted, Refused, sockets, memory, table,
    device, history, bounds
<1>2. ASSUME NEW r \in Requests, Ask(r)
      PROVE  Remembers'
  BY <1>2 DEF Ask, Arrives, Refused, sockets, memory, table, device, history, bounds
<1>3. ASSUME NEW r \in Requests, StoreRefused(r)
      PROVE  Remembers'
  BY <1>3 DEF StoreRefused, AnsweredAtOnce, Counted, Fault, sockets, memory, table, device,
    history, bounds
<1>4. ASSUME NEW r \in Requests, StoredInVain(r)
      PROVE  Remembers'
  BY <1>4 DEF StoredInVain, AnsweredAtOnce, Counted, Fault, sockets, memory, table, device,
    history, bounds
<1>5. ASSUME NEW r \in Requests, Stored(r)
      PROVE  Remembers'
  BY <1>5 DEF Stored, sockets, memory, table, device, history, bounds
<1>6. ASSUME NEW r \in Requests, DeviceAnswers(r)
      PROVE  Remembers'
  BY <1>6 DEF DeviceAnswers, sockets, memory, table, device, history, bounds
<1>7. ASSUME NEW r \in Requests, DeviceStops(r)
      PROVE  Remembers'
  BY <1>7 DEF DeviceStops, sockets, memory, table, device, history, bounds
<1>8. ASSUME NEW r \in Requests, ReplyArrives(r)
      PROVE  Remembers'
  BY <1>8 DEF ReplyArrives, Delivered, Counted, Hears, sockets, memory, table, device, history,
    bounds
<1>9. ASSUME NEW r \in Requests, TimerFires(r)
      PROVE  Remembers'
  BY <1>9 DEF TimerFires, Stops, Delivered, Counted, Hears, sockets, memory, table, device,
    history, bounds
<1>10. ASSUME NEW r \in Requests, Cancel(r)
      PROVE  Remembers'
  BY <1>10 DEF Cancel, CancelStoring, CancelFetch, CancelRouted, CancelUnknown, Stops, Counted,
    sockets, memory, table, device, history, bounds
<1>11. ASSUME NEW r \in Requests, Forgets(r)
      PROVE  Remembers'
  BY <1>11 DEF Forgets, sockets, memory, table, device, history, bounds
<1>12. ASSUME NEW r \in Requests, MailArrives(r)
      PROVE  Remembers'
  BY <1>12 DEF MailArrives, Counted, sockets, memory, table, device, history, bounds
<1>13. ASSUME NEW r \in Requests, MailLost(r)
      PROVE  Remembers'
  BY <1>13 DEF MailLost, Fault, sockets, memory, table, device, history, bounds
<1>14. ASSUME NEW d \in Drivers, DeviceConnects(d)
      PROVE  Remembers'
  BY <1>14 DEF DeviceConnects, sockets, memory, table, device, history, bounds
<1>15. ASSUME NEW d \in Drivers, DeviceCloses(d)
      PROVE  Remembers'
  BY <1>15 DEF DeviceCloses, Interrupted, RoutedTo, Delivered, Counted, Hears, sockets, memory,
    table, device, history, bounds
<1>16. ASSUME DeviceForgotten
      PROVE  Remembers'
  BY <1>16 DEF DeviceForgotten, Delivered, Counted, Hears, sockets, memory, table, device,
    history, bounds
<1>17. ASSUME ClientCloses
      PROVE  Remembers'
  BY <1>17 DEF ClientCloses, Stops, sockets, memory, table, device, history, bounds
<1>18. ASSUME Restart
      PROVE  Remembers'
  BY <1>18 DEF Restart, Interrupted, sockets, memory, table, device, history, bounds
<1>19. ASSUME UNCHANGED vars
      PROVE  Remembers'
  BY <1>19 DEF vars, sockets, memory, table, device, history, bounds
<1> QED
  BY <1>1, <1>2, <1>3, <1>4, <1>5, <1>6, <1>7, <1>8, <1>9, <1>10, <1>11, <1>12,
    <1>13, <1>14, <1>15, <1>16, <1>17, <1>18, <1>19 DEF Next, Handles, Device, Mail

\* An answer that goes to the origins of R ends each of them, or is on its way.
LEMMA DeliveredEnds ==
  ASSUME TypeOK, Placed, Unended, Pursued, NEW R \in SUBSET Requests, Delivered(R),
         \A r \in R : Routed(r), UNCHANGED <<kind, client, quieted, unheard>>
  PROVE  /\ \A r \in R : Ended(r)' \/ r \in mail'
         /\ \A r \in R : kind[r] = "fetch" => Ended(r)'
<1> USE DEF TypeOK, Placed, Unended, Pursued, Routed
<1> SUFFICES ASSUME NEW r \in R
             PROVE  /\ Ended(r)' \/ r \in mail'
                    /\ kind[r] = "fetch" => Ended(r)'
  OBVIOUS
<1>1. r \in Requests /\ Routed(r) /\ answers[r] \in Nat /\ fiber[r] \in {"waiting", "over"}
  OBVIOUS
<1>2. CASE kind[r] = "process"
  BY <1>1, <1>2 DEF Delivered
<1>3. CASE kind[r] = "connection"
  <2>1. CASE client
    <3>1. answers'[r] = answers[r] + 1
      BY <1>1, <1>3, <2>1 DEF Delivered, Counted, Hears
    <3> QED
      BY <1>1, <1>3, <3>1 DEF Ended
  <2>2. CASE ~client
    BY <1>3, <2>2 DEF Ended
  <2> QED
    BY <2>1, <2>2
<1>4. CASE kind[r] = "fetch"
  <2>1. CASE fiber[r] = "waiting"
    <3>1. answers'[r] = answers[r] + 1
      BY <1>1, <1>4, <2>1 DEF Delivered, Counted, Hears
    <3> QED
      BY <1>1, <3>1 DEF Ended
  <2>2. CASE fiber[r] = "over"
    BY <1>1, <1>4, <2>2 DEF Ended
  <2> QED
    BY <1>1, <2>1, <2>2
<1> QED
  BY <1>1, <1>2, <1>3, <1>4 DEF Kinds

\* A request that an answer does not go to stands where it stood.
LEMMA DeliveredSpares ==
  ASSUME TypeOK, NEW R \in SUBSET Requests, Delivered(R),
         UNCHANGED <<kind, client, quieted, unheard>>
  PROVE  \A r \in Requests \ R :
           /\ fiber'[r] = fiber[r] /\ route'[r] = route[r]
           /\ r \in mail <=> r \in mail'
           /\ Ended(r)' <=> Ended(r)
<1> USE DEF TypeOK
<1>1. ASSUME NEW r \in Requests \ R
      PROVE  /\ fiber'[r] = fiber[r] /\ route'[r] = route[r]
             /\ r \in mail <=> r \in mail'
             /\ answers'[r] = answers[r]
  BY DEF Delivered, Counted
<1> QED
  BY <1>1 DEF Ended

\* An answer to a set of routed requests keeps the others pursued.
LEMMA DeliveredPursues ==
  ASSUME TypeOK, Placed, Unended, Pursued, NEW R \in SUBSET Requests, Delivered(R),
         \A r \in R : Routed(r), UNCHANGED <<kind, client, quieted, unheard>>,
         \A r \in Requests \ R : r \in timers /\ Routed(r) => r \in timers'
  PROVE  Pursued'
<1>1. ASSUME NEW r \in R
      PROVE  /\ ~Routed(r)'
             /\ Ended(r)' \/ r \in mail'
             /\ fiber'[r] = "over" /\ kind'[r] = "fetch" => Ended(r)'
  <2>1. ~Routed(r)'
    BY DEF Delivered, Routed, TypeOK
  <2> QED
    BY <2>1, DeliveredEnds
<1>2. ASSUME NEW r \in Requests \ R
      PROVE  /\ Routed(r)' => r \in timers'
             /\ fiber'[r] \in {"waiting", "over"} => Ended(r)' \/ Routed(r)' \/ r \in mail'
             /\ fiber'[r] = "over" /\ kind'[r] = "fetch" => Ended(r)'
  BY DeliveredSpares DEF Pursued, Routed
<1> QED
  BY <1>1, <1>2 DEF Pursued

\* What takes a route away answers, writes the answer to a process, or falls silent by right.
LEMMA PursuedKept ==
  ASSUME TypeOK, Placed, Unended, Pursued, [Next]_vars
  PROVE  Pursued'
<1> USE RequestsAssumption DEF TypeOK, Placed, Unended, Pursued, Ended, Routed, Open
<1>1. ASSUME NEW r \in Requests, AskInVain(r)
      PROVE  Pursued'
  BY <1>1 DEF AskInVain, Arrives, AnsweredAtOnce, Counted, Refused, sockets, memory, table,
    device, history, bounds
<1>2. ASSUME NEW r \in Requests, Ask(r)
      PROVE  Pursued'
  BY <1>2 DEF Ask, Arrives, Refused, sockets, memory, table, device, history, bounds
<1>3. ASSUME NEW r \in Requests, StoreRefused(r)
      PROVE  Pursued'
  BY <1>3 DEF StoreRefused, AnsweredAtOnce, Counted, Fault, sockets, memory, table, device,
    history, bounds
<1>4. ASSUME NEW r \in Requests, StoredInVain(r)
      PROVE  Pursued'
  BY <1>4 DEF StoredInVain, AnsweredAtOnce, Counted, Fault, sockets, memory, table, device,
    history, bounds
<1>5. ASSUME NEW r \in Requests, Stored(r)
      PROVE  Pursued'
  BY <1>5 DEF Stored, sockets, memory, table, device, history, bounds
<1>6. ASSUME NEW r \in Requests, DeviceAnswers(r)
      PROVE  Pursued'
  BY <1>6 DEF DeviceAnswers, sockets, memory, table, device, history, bounds
<1>7. ASSUME NEW r \in Requests, DeviceStops(r)
      PROVE  Pursued'
  BY <1>7 DEF DeviceStops, sockets, memory, table, device, history, bounds
<1>8. ASSUME NEW r \in Requests, ReplyArrives(r)
      PROVE  Pursued'
  <2> DEFINE R == {r} \cap {q \in Requests : Routed(q) /\ link[to[q]] \in {"open", "dropped"}}
  <2>1. Delivered(R) /\ UNCHANGED <<kind, client, quieted, unheard, timers>>
    BY <1>8 DEF ReplyArrives, sockets, history
  <2>2. R \in SUBSET Requests /\ \A q \in R : Routed(q)
    OBVIOUS
  <2> HIDE DEF R
  <2> QED
    BY <2>1, <2>2, DeliveredPursues
<1>9. ASSUME NEW r \in Requests, TimerFires(r)
      PROVE  Pursued'
  <2> DEFINE R == {r} \cap {q \in Requests : Routed(q)}
  <2>1. Delivered(R) /\ timers' = timers \ {r} /\ UNCHANGED <<kind, client, quieted, unheard>>
    BY <1>9 DEF TimerFires, sockets, history
  <2>2. R \in SUBSET Requests /\ \A q \in R : Routed(q)
    OBVIOUS
  <2>3. \A q \in Requests \ R : q \in timers /\ Routed(q) => q \in timers'
    BY <2>1
  <2> HIDE DEF R
  <2> QED
    BY <2>1, <2>2, <2>3, DeliveredPursues
<1>10. ASSUME NEW r \in Requests, Cancel(r)
      PROVE  Pursued'
  BY <1>10 DEF Cancel, CancelStoring, CancelFetch, CancelRouted, CancelUnknown, Stops, Counted,
    sockets, memory, table, device, history, bounds
<1>11. ASSUME NEW r \in Requests, Forgets(r)
      PROVE  Pursued'
  BY <1>11 DEF Forgets, sockets, memory, table, device, history, bounds
<1>12. ASSUME NEW r \in Requests, MailArrives(r)
      PROVE  Pursued'
  BY <1>12 DEF MailArrives, Counted, sockets, memory, table, device, history, bounds
<1>13. ASSUME NEW r \in Requests, MailLost(r)
      PROVE  Pursued'
  BY <1>13 DEF MailLost, Fault, sockets, memory, table, device, history, bounds
<1>14. ASSUME NEW d \in Drivers, DeviceConnects(d)
      PROVE  Pursued'
  BY <1>14 DEF DeviceConnects, sockets, memory, table, device, history, bounds
<1>15. ASSUME NEW d \in Drivers, DeviceCloses(d)
      PROVE  Pursued'
  <2>1. UNCHANGED <<kind, client, quieted, unheard, timers>>
    BY <1>15 DEF DeviceCloses, history
  <2>2. PICK R \in SUBSET Requests : Delivered(R) /\ \A q \in R : Routed(q)
    <3>1. \/ Delivered({q \in Requests : Routed(q)})
          \/ Delivered(RoutedTo(d))
      BY <1>15 DEF DeviceCloses
    <3>2. \A q \in RoutedTo(d) : Routed(q)
      BY DEF RoutedTo
    <3>3. RoutedTo(d) \in SUBSET Requests
      BY DEF RoutedTo
    <3> QED
      BY <3>1, <3>2, <3>3
  <2> QED
    BY <2>1, <2>2, DeliveredPursues
<1>16. ASSUME DeviceForgotten
      PROVE  Pursued'
  <2> DEFINE R == {q \in Requests : Routed(q)}
  <2>1. Delivered(R) /\ UNCHANGED <<kind, client, quieted, unheard, timers>>
    BY <1>16 DEF DeviceForgotten, history
  <2>2. R \in SUBSET Requests /\ \A q \in R : Routed(q)
    OBVIOUS
  <2> HIDE DEF R
  <2> QED
    BY <2>1, <2>2, DeliveredPursues
<1>17. ASSUME ClientCloses
      PROVE  Pursued'
  BY <1>17 DEF ClientCloses, Stops, sockets, memory, table, device, history, bounds
<1>18. ASSUME Restart
      PROVE  Pursued'
  BY <1>18 DEF Restart, Interrupted, sockets, memory, table, device, history, bounds
<1>19. ASSUME UNCHANGED vars
      PROVE  Pursued'
  BY <1>19 DEF vars, sockets, memory, table, device, history, bounds
<1> QED
  BY <1>1, <1>2, <1>3, <1>4, <1>5, <1>6, <1>7, <1>8, <1>9, <1>10, <1>11, <1>12,
    <1>13, <1>14, <1>15, <1>16, <1>17, <1>18, <1>19 DEF Next, Handles, Device, Mail

-----------------------------------------------------------------------------
LEMMA IInvInit == Init => IInv
  BY RequestsAssumption DEF Init, IInv, TypeOK, Placed, Unended, Pursued, OneEnd, NoIdleWork,
    Remembers, Routed, Open, Kinds

LEMMA IInvNext == IInv /\ [Next]_vars => IInv'
  BY TypeOKKept, PlacedKept, UnendedKept, PursuedKept, OneEndKept, NoIdleWorkKept,
    RemembersKept DEF IInv

LEMMA IInvAlways == Spec => []IInv
<1>1. Init => IInv
  BY IInvInit
<1>2. IInv /\ [Next]_vars => IInv'
  BY IInvNext
<1> QED
  BY <1>1, <1>2, PTL DEF Spec

\* Every variable of the Kernel's forwarded requests keeps its type.
THEOREM TypesHold == Spec => []TypeOK
<1>1. IInv => TypeOK
  BY DEF IInv
<1> QED
  BY <1>1, IInvAlways, PTL

\* handleRes, onRouteExpired, failDeviceRoutes, cancelRequest and the handler itself
\* end a request once for its origin, in whatever order they come.
THEOREM OneEndHolds == Spec => []OneEnd
<1>1. IInv => OneEnd
  BY DEF IInv
<1> QED
  BY <1>1, IInvAlways, PTL

\* No request is left to wait for nothing: after any restart, closed connection, failed
\* send or late row, a request that has not ended has an answer under way to its process
\* or a route with an onRouteExpired row. This is the safe half of RequestsEnd.
THEOREM PursuedHolds == Spec => []Pursued
<1>1. IInv => Pursued
  BY DEF IInv
<1> QED
  BY <1>1, IInvAlways, PTL

\* sendDeviceRequestCancel goes with every route that is removed without an answer
\* of the device, unless the connection is gone.
THEOREM NoIdleWorkHolds == Spec => []NoIdleWork
<1>1. IInv => NoIdleWork
  BY DEF IInv
<1> QED
  BY <1>1, IInvAlways, PTL

\* registerActiveRequest and the check after the route is stored keep a cancelled
\* request from being sent.
THEOREM CancelHoldsHolds == Spec => CancelHolds
<1>1. IInv /\ [Next]_vars => [\A r \in cancelled \ forgotten :
                                work[r] = "none" => work'[r] = "none"]_vars
  <2> SUFFICES ASSUME IInv, Next, NEW q \in cancelled \ forgotten, work[q] = "none"
               PROVE  work'[q] = "none"
    OBVIOUS
  <2> q \in Requests
    BY DEF IInv, TypeOK
  <2>1. ASSUME NEW r \in Requests, Stored(r)
        PROVE  work'[q] = "none"
    BY <2>1 DEF Stored, IInv, Remembers, TypeOK
  <2>2. ASSUME NEW r \in Requests, DeviceAnswers(r) \/ DeviceStops(r) \/ ReplyArrives(r)
        PROVE  work'[q] = "none"
    BY <2>2 DEF DeviceAnswers, DeviceStops, ReplyArrives, IInv, TypeOK
  <2>3. ASSUME NEW r \in Requests,
               \/ AskInVain(r) \/ Ask(r) \/ StoreRefused(r) \/ StoredInVain(r)
               \/ TimerFires(r) \/ Cancel(r) \/ Forgets(r) \/ MailArrives(r) \/ MailLost(r)
        PROVE  work'[q] = "none"
    BY <2>3 DEF AskInVain, Ask, StoreRefused, StoredInVain, TimerFires, Cancel, Forgets,
      MailArrives, MailLost, device
  <2>4. ASSUME NEW d \in Drivers, DeviceConnects(d) \/ DeviceCloses(d)
        PROVE  work'[q] = "none"
    BY <2>4 DEF DeviceConnects, DeviceCloses, Interrupted, device
  <2>5. ASSUME DeviceForgotten \/ ClientCloses \/ Restart
        PROVE  work'[q] = "none"
    BY <2>5 DEF DeviceForgotten, ClientCloses, Restart, Interrupted, device
  <2> QED
    BY <2>1, <2>2, <2>3, <2>4, <2>5 DEF Next, Handles, Device, Mail
<1> QED
  BY <1>1, IInvAlways, PTL DEF Spec, CancelHolds

=============================================================================

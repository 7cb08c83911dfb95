------------------------------ MODULE IoProofs ------------------------------
(***************************************************************************)
(* The IO devices, proved for any number of processes, device names and    *)
(* connections.                                                            *)
(***************************************************************************)
EXTENDS IoDevices, ListFacts, FiniteSetTheorems, WellFoundedInduction, NaturalsInduction, TLAPS

-----------------------------------------------------------------------------
(* The inductive invariant *)

\* No device is lost before its connection is in the table, and no device is
\* lost that has other instances.
InstancesStay ==
    /\ ~EarlyDeath
    /\ \A u \in Setups : \A s \in u.mortal, t \in Sockets : u.device[t] = u.device[s] => t = s

\* Nothing is known of a socket before process_new_device has run for it.
Fresh(s) ==
    /\ s \notin connections /\ s \notin closing
    /\ pending[s] = 0 /\ inbox[s] = <<>> /\ current[s] = NoPid
    /\ \A p \in Pids : <<s, p>> \notin completions

\* A device that lives is connected once its thread has run; one that died is
\* one that may, received nothing since, and leaves the table through
\* io_disconnected.
Lives ==
    \A s \in Sockets :
        /\ s \notin seen \/ s \in arriving => Fresh(s)
        /\ s \in arriving => s \in alive
        /\ s \in alive /\ s \notin arriving => s \in connections /\ s \notin closing
        /\ s \in seen /\ s \notin alive =>
              /\ s \in setup.mortal /\ inbox[s] = <<>>
              /\ s \in connections => s \in closing

\* A name has its link from its first connection on, and no queue before.
Linked ==
    /\ \A s \in connections : Device(s) \in links
    /\ \A n \in Names : queue[n] # <<>> => n \in links

\* A device that has no free connection has work, done work to report, or is lost.
Working(s) == inbox[s] # <<>> \/ s \in closing \/ \E p \in Pids : <<s, p>> \in completions
FreeOrWorking ==
    \A n \in Names :
        ConnectionsOf(n) # {} /\ FreeConnections(n) = {} =>
            \E s \in Sockets : Device(s) = n /\ Working(s)

\* Where the request of p is: in the queue of n, at device s, or served by s.
Waits(n, p) == p \in Range(queue[n])
Has(s, p) == p \in Range(inbox[s])
Done(s, p) == s \in connections /\ <<s, p>> \in completions

\* A request is in one place.
Single ==
    /\ \A n \in Names : IsInjective(queue[n])
    /\ \A s \in Sockets : IsInjective(inbox[s])
    /\ \A p \in Pids :
          /\ \A n, m \in Names : Waits(n, p) /\ Waits(m, p) => n = m
          /\ \A s, t \in Sockets : Has(s, p) /\ Has(t, p) => s = t
          /\ \A s, t \in Sockets : Done(s, p) /\ Done(t, p) => s = t
          /\ \A n \in Names, s \in Sockets : ~(Waits(n, p) /\ Has(s, p))
          /\ \A n \in Names, s \in Sockets : ~(Waits(n, p) /\ Done(s, p))
          /\ \A s, t \in Sockets : ~(Has(s, p) /\ Done(t, p))

\* The process has a request somewhere.
Asks(p) ==
    \/ \E n \in Names : Waits(n, p)
    \/ \E s \in Sockets : Has(s, p) \/ Done(s, p)

\* The blocked processes are those with a request, and those of a lost device.
Asked ==
    \A p \in Pids :
        /\ Asks(p) => Blocked(p)
        /\ Blocked(p) => Asks(p) \/ Orphan(p)

\* The mark of the only instance of a device is the process it serves or served
\* last, whose request is nowhere else and whose mark is on no other such device.
ServesMark(s) == \A p \in Pids : Has(s, p) \/ Done(s, p) => current[s] = p
MarkOnly(s, p) ==
    /\ Blocked(p)
    /\ Has(s, p) \/ Done(s, p) \/ s \in closing
    /\ \A n \in Names : ~Waits(n, p)
    /\ \A t \in Sockets : Has(t, p) \/ Done(t, p) => t = s
    /\ \A t \in connections : Alone(t) /\ current[t] = p => t = s
Marks ==
    \A s \in connections : Alone(s) =>
        /\ ServesMark(s)
        /\ \A p \in Pids : current[s] = p => MarkOnly(s, p)

IoInv == TypeOK /\ Lives /\ Linked /\ FreeOrWorking /\ Single /\ Asked /\ Marks

-----------------------------------------------------------------------------
(* Types *)

\* A call of process_pending_io to come is counted for one socket.
LEMMA CallPendingType ==
    ASSUME pending \in [Sockets -> Nat], NEW s, CallPending(s)
    PROVE  pending' \in [Sockets -> Nat]
<1>1. pending' = [pending EXCEPT ![s] = pending[s] + 1]
  BY DEF CallPending
<1>2. ASSUME NEW t \in Sockets PROVE pending'[t] \in Nat
  <2>1. pending[t] \in Nat
    OBVIOUS
  <2>2. pending'[t] = IF t = s THEN pending[t] + 1 ELSE pending[t]
    BY <1>1
  <2> QED
    BY <2>1, <2>2
<1> QED
  BY <1>1, <1>2

\* The handlers of the kernel and the device program keep the types.
LEMMA TypeStep ==
    TypeOK /\ [Next]_vars => TypeOK'
<1> SUFFICES ASSUME TypeOK, [Next]_vars PROVE TypeOK'
  OBVIOUS
<1> USE IoAssumption
<1>1. ASSUME NEW s \in Sockets, Connect(s) PROVE TypeOK'
  BY <1>1 DEF TypeOK, Connect, kernel, procs, threads, devices
<1>2. ASSUME NEW s \in Sockets, Die(s) PROVE TypeOK'
  BY <1>2 DEF TypeOK, Die, kernel, procs, threads, devices
<1>3. ASSUME NEW s \in Sockets, ProcessOperation(s) PROVE TypeOK'
  <2>1. inbox[s] \in Seq(Pids) /\ inbox[s] # <<>>
    BY <1>3 DEF TypeOK, ProcessOperation
  <2>2. Tail(inbox[s]) \in Seq(Pids) /\ Head(inbox[s]) \in Pids
    BY <2>1, TailFacts
  <2> QED
    BY <1>3, <2>2 DEF TypeOK, ProcessOperation, kernel, procs, threads, devices
<1>4. ASSUME NEW s \in Sockets, process_new_device(s) PROVE TypeOK'
  <2>1. Device(s) \in Names
    BY DEF TypeOK, Device
  <2>2. pending' \in [Sockets -> Nat]
    BY <1>4 DEF TypeOK, process_new_device, CallPending
  <2> QED
    BY <1>4, <2>1, <2>2 DEF TypeOK, process_new_device, kernel, procs, threads, devices
<1>5. ASSUME NEW s \in Sockets, process_pending_io(s) PROVE TypeOK'
  <2>1. pending' \in [Sockets -> Nat]
    BY <1>5 DEF TypeOK, process_pending_io
  <2>2. Device(s) \in Names
    BY DEF TypeOK, Device
  <2>3. CASE UNCHANGED <<queue, current, inbox>>
    BY <1>5, <2>1, <2>3 DEF TypeOK, process_pending_io, kernel, procs, threads, devices
  <2>4. CASE ~NothingToSend(Device(s)) /\ SendRequest(s, Device(s))
    <3> DEFINE n == Device(s)
    <3>1. queue[n] \in Seq(Pids) /\ queue[n] # <<>>
      BY <2>2, <2>4 DEF TypeOK, NothingToSend
    <3>2. Tail(queue[n]) \in Seq(Pids) /\ Head(queue[n]) \in Pids
      BY <3>1, TailFacts
    <3>3. queue' \in [Names -> Seq(Pids)]
      BY <2>4, <3>2 DEF TypeOK, SendRequest
    <3>4. current' \in [Sockets -> Pids \cup {NoPid}]
      BY <2>4, <3>2 DEF TypeOK, SendRequest
    <3>5. Append(inbox[s], Head(queue[n])) \in Seq(Pids)
      BY <3>2, AppendFacts DEF TypeOK
    <3>6. inbox' \in [Sockets -> Seq(Pids)]
      BY <2>4, <3>5 DEF TypeOK, SendRequest, Deliver
    <3> QED
      BY <1>5, <2>1, <3>3, <3>4, <3>6
      DEF TypeOK, process_pending_io, kernel, procs, threads, devices
  <2> QED
    BY <1>5, <2>3, <2>4 DEF process_pending_io
<1>6. ASSUME NEW s \in Sockets, NEW p \in Pids, io_completion(s, p) PROVE TypeOK'
  <2>1. pending' \in [Sockets -> Nat]
    BY <1>6, CallPendingType DEF TypeOK, io_completion
  <2> QED
    BY <1>6, <2>1 DEF TypeOK, io_completion, kernel, procs, threads, devices
<1>7. ASSUME NEW s \in Sockets, io_disconnected(s) PROVE TypeOK'
  BY <1>7 DEF TypeOK, io_disconnected, EndProcessOf, kernel, procs, threads, devices
<1>8. ASSUME NEW p \in Pids, NEW n \in Names, IoNotFound(p, n) PROVE TypeOK'
  BY <1>8 DEF TypeOK, IoNotFound, kernel, procs, threads, devices
<1>9. ASSUME NEW p \in Pids, NEW n \in Names, handle_io_process_syscall(p, n) PROVE TypeOK'
  <2>1. Append(queue[n], p) \in Seq(Pids)
    BY AppendFacts DEF TypeOK
  <2>2. queue' \in [Names -> Seq(Pids)]
    BY <1>9, <2>1 DEF TypeOK, handle_io_process_syscall
  <2>3. pending' \in [Sockets -> Nat]
    BY <1>9, CallPendingType DEF TypeOK, handle_io_process_syscall
  <2>4. calls' \in 0 .. MaxCalls
    BY <1>9 DEF TypeOK, handle_io_process_syscall
  <2> QED
    BY <1>9, <2>2, <2>3, <2>4
    DEF TypeOK, handle_io_process_syscall, kernel, procs, threads, devices
<1>10. ASSUME NEW p \in Pids, Suspend(p) PROVE TypeOK'
  BY <1>10 DEF TypeOK, Suspend, kernel, procs, threads, devices
<1>11. CASE UNCHANGED vars
  BY <1>11 DEF TypeOK, vars, kernel, procs, threads, devices
<1> QED
  BY <1>1, <1>2, <1>3, <1>4, <1>5, <1>6, <1>7, <1>8, <1>9, <1>10, <1>11 DEF Next, Thread

\* In every configuration: the table, the queues, the threads and the devices
\* have their types, and an IO is never sent to a process that does not exist.
THEOREM TypeCorrect == Spec => []TypeOK
<1>1. Init => TypeOK
  BY IoAssumption DEF Init, TypeOK
<1> QED
  BY <1>1, TypeStep, PTL DEF Spec

-----------------------------------------------------------------------------
(* The table of connections *)

\* A set of numbers that is not empty has its minimum.
LEMMA MinMember ==
    ASSUME NEW T \in SUBSET Nat, T # {}
    PROVE  Min(T) \in T
<1> DEFINE R == OpToRel(<, Nat)
<1>1. IsWellFoundedOn(R, Nat)
  BY NatLessThanWellFounded
<1>2. \E x \in T : \A y \in T : ~(<<y, x>> \in R)
  <2> HIDE DEF R
  <2> QED
    BY <1>1, WFMin
<1>3. PICK x \in T : \A y \in T : ~(<<y, x>> \in R)
  BY <1>2
<1>4. ASSUME NEW y \in T PROVE x =< y
  <2>1. ~(y < x)
    BY <1>3 DEF OpToRel
  <2> QED
    BY <2>1
<1> QED
  BY <1>4 DEF Min

\* get_io_connection_status_by_device_name answers with a connection of the
\* name, and with a free one if there is any.
LEMMA StatusMember ==
    ASSUME TypeOK, NEW n, ConnectionsOf(n) # {}
    PROVE  /\ ConnectionStatus(n) \in ConnectionsOf(n)
           /\ FreeConnections(n) # {} => ConnectionStatus(n) \in FreeConnections(n)
<1>1. ConnectionsOf(n) \in SUBSET Nat /\ FreeConnections(n) \in SUBSET Nat
  BY IoAssumption DEF TypeOK, ConnectionsOf, FreeConnections
<1>2. FreeConnections(n) \subseteq ConnectionsOf(n)
  BY DEF FreeConnections
<1>3. Min(ConnectionsOf(n)) \in ConnectionsOf(n)
  BY <1>1, MinMember
<1>4. FreeConnections(n) # {} => Min(FreeConnections(n)) \in FreeConnections(n)
  BY <1>1, MinMember
<1> QED
  BY <1>2, <1>3, <1>4 DEF ConnectionStatus

\* The only instance of a device is the connection found for its name.
LEMMA StatusAlone ==
    ASSUME TypeOK, NEW s \in connections, Alone(s)
    PROVE  ConnectionStatus(Device(s)) = s
<1>1. ConnectionsOf(Device(s)) = {s}
  BY DEF TypeOK, ConnectionsOf, Alone
<1> QED
  BY <1>1, StatusMember

\* A device that may be lost is the only instance of its name.
LEMMA MortalAlone ==
    ASSUME InstancesStay, TypeOK, NEW s \in Sockets, s \in setup.mortal
    PROVE  Alone(s)
BY IoAssumption DEF InstancesStay, TypeOK, Alone, Device

\* What is left of IoInv next to the types.
Requests == Lives /\ Linked /\ FreeOrWorking /\ Single /\ Asked /\ Marks

\* The parts that look at the requests and the marks only.
LEMMA SameRequests ==
    ASSUME UNCHANGED <<setup, connections, current, queue, list, completions, closing, inbox>>
    PROVE  /\ FreeOrWorking => FreeOrWorking'
           /\ Single => Single'
           /\ Asked => Asked'
           /\ Marks => Marks'
<1>1. FreeOrWorking => FreeOrWorking'
  BY SMTT(30) DEF FreeOrWorking, Working, ConnectionsOf, FreeConnections, Device
<1>2. Single => Single'
  BY DEF Single, Waits, Has, Done
<1>3. Asked => Asked'
  BY DEF Asked, Asks, Waits, Has, Done, Blocked, Orphan
<1>4. Marks => Marks'
  BY DEF Marks, ServesMark, MarkOnly, Waits, Has, Done, Blocked, Alone, Device
<1> QED
  BY <1>1, <1>2, <1>3, <1>4

-----------------------------------------------------------------------------
(* The steps of the devices *)

\* A device connects.
LEMMA ConnectKeeps ==
    ASSUME IoInv, NEW s \in Sockets, Connect(s)
    PROVE  Requests'
<1>1. /\ UNCHANGED <<setup, connections, current, links, queue, list, pending>>
      /\ UNCHANGED <<completions, closing, inbox>>
      /\ s \notin seen /\ seen' = seen \cup {s}
      /\ alive' = alive \cup {s} /\ arriving' = arriving \cup {s}
  BY DEF Connect, kernel, procs
<1>2. Lives'
  BY <1>1 DEF IoInv, TypeOK, Lives, Fresh
<1>3. Linked'
  BY <1>1 DEF IoInv, Linked, Device
<1> QED
  BY <1>1, <1>2, <1>3, SameRequests DEF IoInv, Requests

\* A device finishes the request it serves.
LEMMA ProcessOperationKeeps ==
    ASSUME IoInv, NEW s \in Sockets, ProcessOperation(s)
    PROVE  Requests'
<1> DEFINE q == Head(inbox[s])
<1>1. /\ UNCHANGED <<setup, connections, current, links, queue, list, pending>>
      /\ UNCHANGED <<arriving, closing, seen, alive>>
      /\ s \in alive /\ inbox[s] # <<>>
      /\ inbox' = [inbox EXCEPT ![s] = Tail(inbox[s])]
      /\ completions' = completions \cup {<<s, q>>}
  BY DEF ProcessOperation, kernel, procs
<1>2. /\ inbox[s] \in Seq(Pids) /\ IsInjective(inbox[s])
      /\ inbox \in [Sockets -> Seq(Pids)]
      /\ \A t \in Sockets : IsInjective(inbox[t])
  BY DEF IoInv, TypeOK, Single
<1>3. /\ q \in Pids /\ Tail(inbox[s]) \in Seq(Pids) /\ IsInjective(Tail(inbox[s]))
      /\ Range(inbox[s]) = Range(Tail(inbox[s])) \cup {q}
      /\ q \notin Range(Tail(inbox[s]))
  BY <1>1, <1>2, TailFacts
<1>4. s \in connections /\ s \notin closing /\ s \notin arriving
  BY <1>1 DEF IoInv, Lives, Fresh
<1>5. /\ \A n, p : Waits(n, p)' <=> Waits(n, p)
      /\ \A t \in Sockets : \A p : Has(t, p)' <=> Has(t, p) /\ ~(t = s /\ p = q)
      /\ \A t, p : Done(t, p)' <=> Done(t, p) \/ (t = s /\ p = q)
      /\ Has(s, q)
  <2> HIDE DEF q
  <2>1. \A t \in Sockets : inbox'[t] = IF t = s THEN Tail(inbox[s]) ELSE inbox[t]
    BY <1>1, <1>2
  <2>2. \A t \in Sockets : \A p : Has(t, p)' <=> Has(t, p) /\ ~(t = s /\ p = q)
    <3> SUFFICES ASSUME NEW t \in Sockets, NEW p PROVE Has(t, p)' <=> Has(t, p) /\ ~(t = s /\ p = q)
      OBVIOUS
    <3>1. CASE t = s
      BY <1>3, <2>1, <3>1 DEF Has
    <3>2. CASE t # s
      BY <2>1, <3>2 DEF Has
    <3> QED
      BY <3>1, <3>2
  <2> QED
    BY <1>1, <1>3, <1>4, <2>2 DEF Waits, Has, Done
<1> HIDE DEF q
<1>6. \A t \in Sockets : IsInjective(inbox'[t])
  BY <1>1, <1>2, <1>3
<1>7. Lives'
  <2> SUFFICES ASSUME NEW t \in Sockets
               PROVE  /\ t \notin seen \/ t \in arriving => Fresh(t)'
                      /\ t \in arriving => t \in alive
                      /\ t \in alive /\ t \notin arriving => t \in connections /\ t \notin closing
                      /\ t \in seen /\ t \notin alive =>
                            /\ t \in setup.mortal /\ inbox'[t] = <<>>
                            /\ t \in connections => t \in closing
    BY <1>1 DEF Lives
  <2>1. CASE t = s
    BY <1>1, <1>4, <2>1 DEF IoInv, TypeOK, Lives
  <2>2. CASE t # s
    <3>1. inbox'[t] = inbox[t] /\ \A p : <<t, p>> \in completions' <=> <<t, p>> \in completions
      BY <1>1, <1>2, <2>2
    <3> QED
      BY <1>1, <3>1 DEF IoInv, Lives, Fresh
  <2> QED
    BY <2>1, <2>2
<1>8. Linked'
  BY <1>1 DEF IoInv, Linked, Device
<1>9. FreeOrWorking'
  <2>1. Working(s)'
    BY <1>1, <1>3 DEF Working
  <2>2. \A t \in Sockets : Working(t) => Working(t)'
    BY <1>1, <1>2, <2>1 DEF Working
  <2> QED
    BY <1>1, <2>2 DEF IoInv, FreeOrWorking, ConnectionsOf, FreeConnections, Device
<1>10. Single'
  BY <1>1, <1>5, <1>6, <1>2 DEF IoInv, Single
<1>11. Asked'
  BY <1>1, <1>3, <1>5 DEF IoInv, Asked, Asks, Blocked, Orphan
<1>12. Marks'
  <2>1. \A t : Alone(t)' <=> Alone(t)
    BY <1>1 DEF Alone, Device
  <2> SUFFICES ASSUME NEW t \in connections, Alone(t)
               PROVE  ServesMark(t)' /\ \A p \in Pids : current[t] = p => MarkOnly(t, p)'
    BY <1>1, <2>1 DEF Marks
  <2>2. t \in Sockets /\ ServesMark(t) /\ \A p \in Pids : current[t] = p => MarkOnly(t, p)
    BY DEF IoInv, TypeOK, Marks
  <2>3. ServesMark(t)'
    BY <1>1, <1>5, <2>2 DEF ServesMark
  <2>4. ASSUME NEW p \in Pids, current[t] = p PROVE MarkOnly(t, p)'
    <3>1. MarkOnly(t, p)
      BY <2>2, <2>4
    <3>2. Has(t, p)' \/ Done(t, p)' \/ t \in closing'
      BY <1>1, <1>5, <2>2, <3>1 DEF MarkOnly
    <3>3. \A u \in Sockets : Has(u, p)' \/ Done(u, p)' => u = t
      BY <1>5, <3>1 DEF MarkOnly
    <3> QED
      BY <1>1, <1>5, <2>1, <3>1, <3>2, <3>3 DEF MarkOnly, Blocked
  <2> QED
    BY <2>3, <2>4
<1> QED
  BY <1>7, <1>8, <1>9, <1>10, <1>11, <1>12 DEF Requests

\* A device is lost, with what it had received.
LEMMA DieKeeps ==
    ASSUME InstancesStay, IoInv, NEW s \in Sockets, Die(s)
    PROVE  Requests'
<1>1. /\ UNCHANGED <<setup, connections, current, links, queue, list, pending>>
      /\ UNCHANGED <<arriving, completions, seen>>
      /\ s \in alive /\ s \in setup.mortal /\ s \notin arriving
      /\ alive' = alive \ {s} /\ closing' = closing \cup {s}
      /\ inbox' = [inbox EXCEPT ![s] = <<>>]
  BY DEF Die, kernel, procs, InstancesStay
<1>2. inbox \in [Sockets -> Seq(Pids)] /\ <<>> \in Seq(Pids)
  BY DEF IoInv, TypeOK
<1>3. Alone(s) /\ s \in connections /\ s \notin closing /\ s \in seen
  BY <1>1, MortalAlone DEF IoInv, TypeOK, Lives
<1>4. \A t \in Sockets : inbox'[t] = IF t = s THEN <<>> ELSE inbox[t]
  BY <1>1, <1>2
<1>5. Range(<<>>) = {} /\ IsInjective(<<>>)
  <2>1. Range(<<>>) = {}
    BY <1>2, RangeElements
  <2>2. DOMAIN <<>> = {}
    OBVIOUS
  <2> QED
    BY <2>1, <2>2 DEF IsInjective
<1>6. /\ \A n, p : Waits(n, p)' <=> Waits(n, p)
      /\ \A t \in Sockets : \A p : Has(t, p)' <=> Has(t, p) /\ t # s
      /\ \A t, p : Done(t, p)' <=> Done(t, p)
  BY <1>1, <1>4, <1>5 DEF Waits, Has, Done
<1>7. \A t : Alone(t)' <=> Alone(t)
  BY <1>1 DEF Alone, Device
<1>8. Lives'
  <2> SUFFICES ASSUME NEW t \in Sockets
               PROVE  /\ t \notin seen \/ t \in arriving => Fresh(t)'
                      /\ t \in arriving => t \in alive'
                      /\ t \in alive' /\ t \notin arriving => t \in connections /\ t \notin closing'
                      /\ t \in seen /\ t \notin alive' =>
                            /\ t \in setup.mortal /\ inbox'[t] = <<>>
                            /\ t \in connections => t \in closing'
    BY <1>1 DEF Lives
  <2>1. CASE t = s
    BY <1>1, <1>3, <1>4, <2>1
  <2>2. CASE t # s
    BY <1>1, <1>4, <2>2 DEF IoInv, Lives, Fresh
  <2> QED
    BY <2>1, <2>2
<1>9. Linked'
  BY <1>1 DEF IoInv, Linked, Device
<1>10. FreeOrWorking'
  <2>1. \A t \in Sockets : Working(t) => Working(t)'
    BY <1>1, <1>4 DEF Working
  <2> QED
    BY <1>1, <2>1 DEF IoInv, FreeOrWorking, ConnectionsOf, FreeConnections, Device
<1>11. Single'
  <2>1. \A t \in Sockets : IsInjective(inbox'[t])
    BY <1>4, <1>5 DEF IoInv, Single
  <2> QED
    BY <1>1, <1>6, <2>1 DEF IoInv, Single
<1>12. Asked'
  <2> SUFFICES ASSUME NEW p \in Pids
               PROVE  (Asks(p)' => Blocked(p)) /\ (Blocked(p) => Asks(p)' \/ Orphan(p)')
    BY <1>1 DEF Asked, Blocked
  <2>1. (Asks(p) => Blocked(p)) /\ (Blocked(p) => Asks(p) \/ Orphan(p))
    BY DEF IoInv, Asked
  <2>2. Asks(p)' => Asks(p)
    BY <1>1, <1>6 DEF Asks
  <2>3. Orphan(p) => Orphan(p)'
    BY <1>1 DEF Orphan
  <2>4. Has(s, p) => Orphan(p)'
    BY <1>1, <1>3 DEF IoInv, Marks, ServesMark, Orphan
  <2>5. Asks(p) => Asks(p)' \/ Has(s, p)
    BY <1>1, <1>6 DEF Asks
  <2> QED
    BY <2>1, <2>2, <2>3, <2>4, <2>5
<1>13. Marks'
  <2> SUFFICES ASSUME NEW t \in connections, Alone(t)
               PROVE  ServesMark(t)' /\ \A p \in Pids : current[t] = p => MarkOnly(t, p)'
    BY <1>1, <1>7 DEF Marks
  <2>1. t \in Sockets /\ ServesMark(t) /\ \A p \in Pids : current[t] = p => MarkOnly(t, p)
    BY DEF IoInv, TypeOK, Marks
  <2>2. ServesMark(t)'
    BY <1>1, <1>6, <2>1 DEF ServesMark
  <2>3. ASSUME NEW p \in Pids, current[t] = p PROVE MarkOnly(t, p)'
    <3>1. MarkOnly(t, p)
      BY <2>1, <2>3
    <3> QED
      BY <1>1, <1>6, <1>7, <2>1, <3>1 DEF MarkOnly, Blocked
  <2> QED
    BY <2>2, <2>3
<1> QED
  BY <1>8, <1>9, <1>10, <1>11, <1>12, <1>13 DEF Requests

-----------------------------------------------------------------------------
(* The handlers of the kernel *)

\* The connection of a new device.
LEMMA NewDeviceKeeps ==
    ASSUME IoInv, NEW s \in Sockets, process_new_device(s)
    PROVE  Requests'
<1>1. /\ UNCHANGED <<setup, queue, list, completions, closing, seen, alive, inbox>>
      /\ s \in arriving /\ arriving' = arriving \ {s}
      /\ connections' = connections \cup {s}
      /\ current' = [current EXCEPT ![s] = NoPid]
      /\ links' = links \cup {Device(s)}
  BY DEF process_new_device, procs, devices
<1>2. Fresh(s) /\ s \in alive /\ s \in seen
  BY <1>1 DEF IoInv, TypeOK, Lives
<1>3. /\ \A t \in Sockets : t # s => pending'[t] = pending[t]
      /\ pending \in [Sockets -> Nat]
  BY DEF IoInv, TypeOK, process_new_device, CallPending
<1>4. /\ current \in [Sockets -> Pids \cup {NoPid}] /\ current[s] = NoPid
      /\ current' = current
  BY <1>1, <1>2 DEF IoInv, TypeOK, Fresh
<1>5. /\ \A n, p : Waits(n, p)' <=> Waits(n, p)
      /\ \A t, p : Has(t, p)' <=> Has(t, p)
      /\ \A t : \A p \in Pids : Done(t, p)' <=> Done(t, p)
      /\ \A p \in Pids : ~Has(s, p) /\ ~Done(s, p)
  <2>1. Range(inbox[s]) = {}
    BY <1>2, RangeElements DEF IoInv, TypeOK, Fresh
  <2> QED
    BY <1>1, <1>2, <2>1 DEF Waits, Has, Done, Fresh
<1>6. \A t : Alone(t)' <=> Alone(t)
  BY <1>1 DEF Alone, Device
<1>7. Lives'
  <2> SUFFICES ASSUME NEW t \in Sockets
               PROVE  /\ t \notin seen \/ t \in arriving' => Fresh(t)'
                      /\ t \in arriving' => t \in alive
                      /\ t \in alive /\ t \notin arriving' => t \in connections' /\ t \notin closing
                      /\ t \in seen /\ t \notin alive =>
                            /\ t \in setup.mortal /\ inbox[t] = <<>>
                            /\ t \in connections' => t \in closing
    BY <1>1 DEF Lives
  <2>1. CASE t = s
    BY <1>1, <1>2, <2>1 DEF Fresh
  <2>2. CASE t # s
    BY <1>1, <1>3, <1>4, <2>2 DEF IoInv, Lives, Fresh
  <2> QED
    BY <2>1, <2>2
<1>8. Linked'
  BY <1>1 DEF IoInv, Linked, Device
<1>9. FreeOrWorking'
  <2>1. \A t : Working(t)' <=> Working(t)
    BY <1>1 DEF Working
  <2> SUFFICES ASSUME NEW n \in Names, ConnectionsOf(n)' # {}, FreeConnections(n)' = {}
               PROVE  \E t \in Sockets : Device(t) = n /\ Working(t)
    BY <1>1, <2>1 DEF FreeOrWorking, Device
  <2>2. n # Device(s)
    BY <1>1, <1>4 DEF FreeConnections, ConnectionsOf, Device
  <2>3. ConnectionsOf(n)' = ConnectionsOf(n) /\ FreeConnections(n)' = FreeConnections(n)
    BY <1>1, <1>4, <2>2 DEF FreeConnections, ConnectionsOf, Device
  <2> QED
    BY <2>3 DEF IoInv, FreeOrWorking
<1>10. Single'
  BY <1>1, <1>5 DEF IoInv, Single
<1>11. Asked'
  <2>1. \A p \in Pids : (Asks(p)' <=> Asks(p)) /\ (Blocked(p)' <=> Blocked(p))
    BY <1>1, <1>5 DEF Asks, Blocked
  <2>2. \A p \in Pids : Orphan(p) => Orphan(p)'
    BY <1>1, <1>4 DEF Orphan
  <2> QED
    BY <2>1, <2>2 DEF IoInv, Asked
<1>12. Marks'
  <2> SUFFICES ASSUME NEW t \in connections', Alone(t)
               PROVE  ServesMark(t)' /\ \A p \in Pids : current[t] = p => MarkOnly(t, p)'
    BY <1>4, <1>6 DEF Marks
  <2>1. CASE t = s
    BY <1>4, <1>5, <2>1, IoAssumption DEF ServesMark
  <2>2. CASE t # s
    <3>1. t \in Sockets /\ ServesMark(t) /\ \A p \in Pids : current[t] = p => MarkOnly(t, p)
      BY <1>1, <2>2 DEF IoInv, TypeOK, Marks
    <3>2. ServesMark(t)'
      BY <1>4, <1>5, <3>1 DEF ServesMark
    <3>3. ASSUME NEW p \in Pids, current[t] = p PROVE MarkOnly(t, p)'
      <4>1. MarkOnly(t, p)
        BY <3>1, <3>3
      <4>2. \A u \in connections' : Alone(u) /\ current[u] = p => u = t
        BY <1>1, <1>4, <4>1, IoAssumption DEF MarkOnly
      <4> QED
        BY <1>1, <1>4, <1>5, <1>6, <3>1, <4>1, <4>2 DEF MarkOnly, Blocked
    <3> QED
      BY <3>2, <3>3
  <2> QED
    BY <2>1, <2>2
<1> QED
  BY <1>7, <1>8, <1>9, <1>10, <1>11, <1>12 DEF Requests

\* The process of an IO on a name without connections ends.
LEMMA NotFoundKeeps ==
    ASSUME IoInv, NEW q \in Pids, NEW m \in Names, IoNotFound(q, m)
    PROVE  Requests'
<1>1. /\ UNCHANGED <<setup, connections, current, links, queue, pending, arriving>>
      /\ UNCHANGED <<completions, closing, seen, alive, inbox>>
      /\ list[q] = "out" /\ list' = [list EXCEPT ![q] = "EXIT"]
  BY DEF IoNotFound, kernel, threads, devices
<1>2. \A p \in Pids : Blocked(p)' <=> Blocked(p)
  BY <1>1 DEF IoInv, TypeOK, Blocked
<1>3. Lives' /\ Linked'
  BY <1>1 DEF IoInv, Lives, Fresh, Linked, Device
<1>4. FreeOrWorking' /\ Single'
  <2>1. FreeOrWorking'
    BY <1>1 DEF IoInv, FreeOrWorking, Working, ConnectionsOf, FreeConnections, Device
  <2>2. Single'
    BY <1>1 DEF IoInv, Single, Waits, Has, Done
  <2> QED
    BY <2>1, <2>2
<1>5. Asked'
  BY <1>1, <1>2 DEF IoInv, Asked, Asks, Waits, Has, Done, Orphan
<1>6. Marks'
  BY <1>1, <1>2 DEF IoInv, Marks, ServesMark, MarkOnly, Waits, Has, Done, Alone, Device
<1> QED
  BY <1>3, <1>4, <1>5, <1>6 DEF Requests

\* A suspension moves a process between the lists of blocked ones.
LEMMA SuspendKeeps ==
    ASSUME IoInv, NEW q \in Pids, Suspend(q)
    PROVE  Requests'
<1>1. /\ UNCHANGED <<setup, connections, current, links, queue, pending, arriving>>
      /\ UNCHANGED <<completions, closing, seen, alive, inbox>>
      /\ Blocked(q)
      /\ list' = [list EXCEPT ![q] = IF list[q] = "BLOCKED" THEN "SUSP_BLOCKED" ELSE "BLOCKED"]
  BY DEF Suspend, kernel, threads, devices
<1>2. \A p \in Pids : Blocked(p)' <=> Blocked(p)
  BY <1>1 DEF IoInv, TypeOK, Blocked
<1>3. Lives' /\ Linked'
  BY <1>1 DEF IoInv, Lives, Fresh, Linked, Device
<1>4. FreeOrWorking' /\ Single'
  <2>1. FreeOrWorking'
    BY <1>1 DEF IoInv, FreeOrWorking, Working, ConnectionsOf, FreeConnections, Device
  <2>2. Single'
    BY <1>1 DEF IoInv, Single, Waits, Has, Done
  <2> QED
    BY <2>1, <2>2
<1>5. Asked'
  BY <1>1, <1>2 DEF IoInv, Asked, Asks, Waits, Has, Done, Orphan
<1>6. Marks'
  BY <1>1, <1>2 DEF IoInv, Marks, ServesMark, MarkOnly, Waits, Has, Done, Alone, Device
<1> QED
  BY <1>3, <1>4, <1>5, <1>6 DEF Requests

\* An IO call blocks its process and queues its request.
LEMMA IoCallKeeps ==
    ASSUME IoInv, NEW q \in Pids, NEW m \in Names, handle_io_process_syscall(q, m)
    PROVE  Requests'
<1>1. /\ UNCHANGED <<setup, connections, current, links, arriving, completions, closing>>
      /\ UNCHANGED <<seen, alive, inbox>>
      /\ list[q] = "out" /\ list' = [list EXCEPT ![q] = "BLOCKED"]
      /\ ConnectionsOf(m) # {}
      /\ queue' = [queue EXCEPT ![m] = Append(queue[m], q)]
      /\ CallPending(ConnectionStatus(m))
  BY DEF handle_io_process_syscall, devices
<1>2. /\ queue \in [Names -> Seq(Pids)] /\ queue[m] \in Seq(Pids)
      /\ list \in [Pids -> {"out", "BLOCKED", "SUSP_BLOCKED", "EXIT"}]
      /\ pending \in [Sockets -> Nat]
      /\ \A n \in Names : IsInjective(queue[n])
      /\ connections \subseteq Sockets
  BY DEF IoInv, TypeOK, Single
<1>3. /\ \A p \in Pids : Blocked(p)' <=> Blocked(p) \/ p = q
      /\ ~Blocked(q)
  BY <1>1, <1>2 DEF Blocked
<1>4. ~Asks(q)
  BY <1>3 DEF IoInv, Asked
<1>5. q \notin Range(queue[m])
  BY <1>4 DEF Asks, Waits
<1>6. /\ Append(queue[m], q) \in Seq(Pids) /\ Append(queue[m], q) # <<>>
      /\ Range(Append(queue[m], q)) = Range(queue[m]) \cup {q}
      /\ IsInjective(Append(queue[m], q))
  BY <1>2, <1>5, AppendFacts
<1>7. \A n \in Names : queue'[n] = IF n = m THEN Append(queue[m], q) ELSE queue[n]
  BY <1>1, <1>2
<1>8. /\ \A n \in Names : \A p : Waits(n, p)' <=> Waits(n, p) \/ (n = m /\ p = q)
      /\ \A t, p : Has(t, p)' <=> Has(t, p)
      /\ \A t, p : Done(t, p)' <=> Done(t, p)
  <2>1. \A n \in Names : \A p : Waits(n, p)' <=> Waits(n, p) \/ (n = m /\ p = q)
    <3> SUFFICES ASSUME NEW n \in Names, NEW p
                 PROVE  Waits(n, p)' <=> Waits(n, p) \/ (n = m /\ p = q)
      OBVIOUS
    <3>1. CASE n = m
      BY <1>6, <1>7, <3>1 DEF Waits
    <3>2. CASE n # m
      BY <1>7, <3>2 DEF Waits
    <3> QED
      BY <3>1, <3>2
  <2> QED
    BY <1>1, <2>1 DEF Has, Done
<1>9. \A t : Alone(t)' <=> Alone(t)
  BY <1>1 DEF Alone, Device
<1>10. PICK c \in connections : Device(c) = m /\ CallPending(c)
  BY <1>1, StatusMember DEF IoInv, ConnectionsOf
<1>11. Lives'
  <2>1. \A t \in Sockets : t # c => pending'[t] = pending[t]
    BY <1>2, <1>10 DEF CallPending
  <2>2. c \in seen /\ c \notin arriving
    BY <1>2, <1>10 DEF IoInv, Lives, Fresh
  <2> QED
    BY <1>1, <2>1, <2>2 DEF IoInv, Lives, Fresh
<1>12. Linked'
  BY <1>1, <1>7, <1>10 DEF IoInv, Linked, Device
<1>13. FreeOrWorking'
  BY <1>1 DEF IoInv, FreeOrWorking, Working, ConnectionsOf, FreeConnections, Device
<1>14. Single'
  <2>1. \A n \in Names : IsInjective(queue'[n])
    BY <1>2, <1>6, <1>7
  <2> QED
    BY <1>1, <1>4, <1>8, <2>1 DEF IoInv, Single, Asks
<1>15. Asked'
  <2>1. \A p \in Pids : Asks(p)' <=> Asks(p) \/ p = q
    BY <1>1, <1>8 DEF Asks
  <2>2. \A p : Orphan(p)' <=> Orphan(p)
    BY <1>1 DEF Orphan
  <2> QED
    BY <1>3, <2>1, <2>2 DEF IoInv, Asked
<1>16. Marks'
  <2> SUFFICES ASSUME NEW t \in connections, Alone(t)
               PROVE  ServesMark(t)' /\ \A p \in Pids : current[t] = p => MarkOnly(t, p)'
    BY <1>1, <1>9 DEF Marks
  <2>1. t \in Sockets /\ ServesMark(t) /\ \A p \in Pids : current[t] = p => MarkOnly(t, p)
    BY <1>2 DEF IoInv, Marks
  <2>2. ServesMark(t)'
    BY <1>1, <1>8, <2>1 DEF ServesMark
  <2>3. ASSUME NEW p \in Pids, current[t] = p PROVE MarkOnly(t, p)'
    <3>1. MarkOnly(t, p)
      BY <2>1, <2>3
    <3>2. p # q
      BY <1>3, <3>1 DEF MarkOnly
    <3> QED
      BY <1>1, <1>3, <1>8, <1>9, <3>1, <3>2 DEF MarkOnly
  <2> QED
    BY <2>2, <2>3
<1> QED
  BY <1>11, <1>12, <1>13, <1>14, <1>15, <1>16 DEF Requests

\* A device whose connection is being given up was lost: it is the only
\* instance of its name, and received nothing since.
LEMMA ClosingAlone ==
    ASSUME InstancesStay, IoInv, NEW s \in Sockets, s \in closing \/ (s \in seen /\ s \notin alive)
    PROVE  s \in seen /\ s \notin alive /\ s \notin arriving /\ Alone(s) /\ inbox[s] = <<>>
<1>1. s \in seen /\ s \notin alive
  BY DEF IoInv, TypeOK, Lives, Fresh
<1>2. s \in setup.mortal /\ inbox[s] = <<>> /\ s \notin arriving
  BY <1>1 DEF IoInv, Lives
<1> QED
  BY <1>1, <1>2, MortalAlone DEF IoInv

\* process_pending_io finds nothing to send, or its send fails.
LEMMA NothingSentKeeps ==
    ASSUME IoInv, NEW s \in Sockets, process_pending_io(s), UNCHANGED <<queue, current, inbox>>
    PROVE  Requests'
<1>1. /\ UNCHANGED <<setup, connections, links, list, arriving, completions, closing, seen, alive>>
      /\ pending[s] > 0 /\ pending' = [pending EXCEPT ![s] = pending[s] - 1]
  BY DEF process_pending_io, procs
<1>2. pending \in [Sockets -> Nat]
  BY DEF IoInv, TypeOK
<1>3. /\ \A t \in Sockets : t # s => pending'[t] = pending[t]
      /\ s \in seen /\ s \notin arriving
  <2>1. pending[s] # 0
    BY <1>1
  <2> QED
    BY <1>1, <1>2, <2>1 DEF IoInv, Lives, Fresh
<1>4. Lives'
  BY <1>1, <1>3 DEF IoInv, Lives, Fresh
<1>5. Linked'
  BY <1>1 DEF IoInv, Linked, Device
<1> QED
  BY <1>1, <1>4, <1>5, SameRequests DEF IoInv, Requests

\* process_pending_io sends the first request.
LEMMA SentKeeps ==
    ASSUME InstancesStay, IoInv, NEW s \in Sockets, process_pending_io(s),
           ~NothingToSend(Device(s)), SendRequest(s, Device(s))
    PROVE  Requests'
<1> DEFINE m == Device(s)
           c == ConnectionStatus(m)
           q == Head(queue[m])
<1>1. /\ UNCHANGED <<setup, connections, links, list, arriving, completions, closing, seen, alive>>
      /\ pending[s] > 0 /\ pending' = [pending EXCEPT ![s] = pending[s] - 1]
      /\ inbox' = IF s \in alive THEN [inbox EXCEPT ![s] = Append(inbox[s], q)] ELSE inbox
      /\ queue' = [queue EXCEPT ![m] = Tail(queue[m])]
      /\ current' = [current EXCEPT ![c] = q]
  BY DEF process_pending_io, SendRequest, Deliver, procs
<1>2. /\ queue \in [Names -> Seq(Pids)] /\ inbox \in [Sockets -> Seq(Pids)]
      /\ pending \in [Sockets -> Nat] /\ current \in [Sockets -> Pids \cup {NoPid}]
      /\ connections \subseteq Sockets /\ m \in Names
      /\ \A n \in Names : IsInjective(queue[n])
      /\ \A t \in Sockets : IsInjective(inbox[t])
  BY IoAssumption DEF IoInv, TypeOK, Single, Device
<1>3. ConnectionsOf(m) # {} /\ ~TrulyBusy(c) /\ queue[m] # <<>>
  BY DEF NothingToSend
<1>4. c \in connections /\ c \in Sockets /\ Device(c) = m
  BY <1>2, <1>3, StatusMember DEF IoInv, ConnectionsOf
<1>5. /\ q \in Pids /\ Tail(queue[m]) \in Seq(Pids) /\ IsInjective(Tail(queue[m]))
      /\ Range(queue[m]) = Range(Tail(queue[m])) \cup {q}
      /\ q \notin Range(Tail(queue[m]))
  BY <1>2, <1>3, TailFacts
<1> HIDE DEF q, c, m
<1>6. s \in seen /\ s \notin arriving /\ c \in seen /\ c \notin arriving
  <2>1. pending[s] # 0
    BY <1>1
  <2> QED
    BY <1>1, <1>2, <1>4, <2>1 DEF IoInv, Lives, Fresh
<1>7. s \notin alive => s = c /\ s \in closing
  <2> SUFFICES ASSUME s \notin alive PROVE s = c /\ s \in closing
    OBVIOUS
  <2>1. Alone(s)
    BY <1>6, ClosingAlone
  <2>2. s = c
    BY <1>4, <2>1 DEF Alone, m
  <2> QED
    BY <1>4, <1>6, <2>2 DEF IoInv, Lives
<1>8. Waits(m, q) /\ Blocked(q) /\ current[c] # q
  <2>1. Waits(m, q)
    BY <1>5 DEF Waits
  <2>2. Blocked(q)
    BY <1>2, <1>5, <2>1 DEF IoInv, Asked, Asks
  <2> QED
    BY <1>3, <1>5, <2>1, <2>2, IoAssumption DEF TrulyBusy
<1>9. /\ \A t \in Sockets : ~Has(t, q) /\ ~Done(t, q)
      /\ \A n \in Names : Waits(n, q) => n = m
  BY <1>2, <1>5, <1>8 DEF IoInv, Single
<1>10. /\ Append(inbox[s], q) \in Seq(Pids) /\ Append(inbox[s], q) # <<>>
       /\ Range(Append(inbox[s], q)) = Range(inbox[s]) \cup {q}
       /\ IsInjective(Append(inbox[s], q))
  BY <1>2, <1>5, <1>9, AppendFacts DEF Has
<1>11. /\ \A n \in Names : queue'[n] = IF n = m THEN Tail(queue[m]) ELSE queue[n]
       /\ \A t \in Sockets :
             inbox'[t] = IF t = s /\ s \in alive THEN Append(inbox[s], q) ELSE inbox[t]
       /\ \A t \in Sockets : current'[t] = IF t = c THEN q ELSE current[t]
       /\ \A t \in Sockets : t # s => pending'[t] = pending[t]
  BY <1>1, <1>2
<1>12. /\ \A n \in Names, p \in Pids : Waits(n, p)' <=> Waits(n, p) /\ p # q
       /\ \A t \in Sockets, p \in Pids :
             Has(t, p)' <=> Has(t, p) \/ (t = s /\ p = q /\ s \in alive)
       /\ \A t, p : Done(t, p)' <=> Done(t, p)
  <2>1. ASSUME NEW n \in Names, NEW p \in Pids PROVE Waits(n, p)' <=> Waits(n, p) /\ p # q
    <3>1. CASE n = m
      BY <1>5, <1>11, <3>1 DEF Waits
    <3>2. CASE n # m
      BY <1>9, <1>11, <3>2 DEF Waits
    <3> QED
      BY <3>1, <3>2
  <2>2. ASSUME NEW t \in Sockets, NEW p \in Pids
        PROVE  Has(t, p)' <=> Has(t, p) \/ (t = s /\ p = q /\ s \in alive)
    <3>1. CASE t = s /\ s \in alive
      BY <1>10, <1>11, <3>1 DEF Has
    <3>2. CASE ~(t = s /\ s \in alive)
      BY <1>11, <3>2 DEF Has
    <3> QED
      BY <3>1, <3>2
  <2> QED
    BY <1>1, <2>1, <2>2 DEF Done
<1>13. \A t : Alone(t)' <=> Alone(t)
  BY <1>1 DEF Alone, Device
<1>14. Lives'
  <2> SUFFICES ASSUME NEW t \in Sockets
               PROVE  /\ t \notin seen \/ t \in arriving => Fresh(t)'
                      /\ t \in seen /\ t \notin alive => inbox'[t] = <<>>
    BY <1>1 DEF IoInv, Lives
  <2>1. t \notin seen \/ t \in arriving => Fresh(t)'
    BY <1>1, <1>6, <1>11 DEF IoInv, Lives, Fresh
  <2> QED
    BY <1>11, <2>1 DEF IoInv, Lives
<1>15. Linked'
  <2>1. \A n \in Names : queue'[n] # <<>> => queue[n] # <<>>
    BY <1>3, <1>11
  <2> QED
    BY <1>1, <2>1 DEF IoInv, Linked, Device
<1>16. FreeOrWorking'
  <2>1. \A t \in Sockets : Working(t) => Working(t)'
    BY <1>1, <1>10, <1>11 DEF Working
  <2>2. Working(s)'
    BY <1>1, <1>7, <1>10, <1>11 DEF Working
  <2> SUFFICES ASSUME NEW n \in Names, ConnectionsOf(n)' # {}, FreeConnections(n)' = {}
               PROVE  \E t \in Sockets : Device(t) = n /\ Working(t)'
    BY <1>1 DEF FreeOrWorking, Device
  <2>3. CASE n = m
    BY <2>2, <2>3 DEF m
  <2>4. CASE n # m
    <3>1. ConnectionsOf(n)' = ConnectionsOf(n)
      BY <1>1 DEF ConnectionsOf, Device
    <3>2. FreeConnections(n)' = FreeConnections(n)
      BY <1>2, <1>4, <1>11, <2>4, <3>1 DEF FreeConnections, ConnectionsOf
    <3> QED
      BY <2>1, <3>1, <3>2 DEF IoInv, FreeOrWorking
  <2> QED
    BY <2>3, <2>4
<1>17. Single'
  <2>1. \A n \in Names : IsInjective(queue'[n])
    BY <1>2, <1>5, <1>11
  <2>2. \A t \in Sockets : IsInjective(inbox'[t])
    BY <1>2, <1>10, <1>11
  <2> QED
    BY <1>1, <1>9, <1>12, <2>1, <2>2 DEF IoInv, Single
<1>18. Asked'
  <2> SUFFICES ASSUME NEW p \in Pids
               PROVE  (Asks(p)' => Blocked(p)) /\ (Blocked(p) => Asks(p)' \/ Orphan(p)')
    BY <1>1 DEF Asked, Blocked
  <2>1. (Asks(p) => Blocked(p)) /\ (Blocked(p) => Asks(p) \/ Orphan(p))
    BY DEF IoInv, Asked
  <2>2. CASE p = q
    <3>1. s \in alive => Asks(p)'
      BY <1>12, <2>2 DEF Asks
    <3>2. s \notin alive => Orphan(p)'
      BY <1>1, <1>4, <1>7, <1>11, <2>2 DEF Orphan
    <3> QED
      BY <1>8, <2>2, <3>1, <3>2
  <2>3. CASE p # q
    <3>1. Asks(p)' <=> Asks(p)
      BY <1>1, <1>12, <2>3 DEF Asks
    <3>2. Blocked(p) /\ Orphan(p) => Orphan(p)'
      BY <1>1, <1>2, <1>3, <1>11, IoAssumption DEF Orphan, TrulyBusy
    <3> QED
      BY <2>1, <3>1, <3>2
  <2> QED
    BY <2>2, <2>3
<1>19. Marks'
  <2> SUFFICES ASSUME NEW t \in connections, Alone(t)
               PROVE  ServesMark(t)' /\ \A p \in Pids : current'[t] = p => MarkOnly(t, p)'
    BY <1>1, <1>13 DEF Marks
  <2>1. t \in Sockets /\ ServesMark(t) /\ \A p \in Pids : current[t] = p => MarkOnly(t, p)
    BY <1>2 DEF IoInv, Marks
  <2>2. t = s <=> t = c
    BY <1>4, <2>1 DEF Alone, m
  <2>3. \A u \in connections : Alone(u) => current[u] # q
    BY <1>2, <1>5, <1>8 DEF IoInv, Marks, MarkOnly
  <2>4. CASE t = c
    <3>1. \A p \in Pids : ~Has(t, p) /\ ~Done(t, p)
      BY <1>3, <2>1, <2>4, IoAssumption DEF ServesMark, MarkOnly, TrulyBusy
    <3>2. ServesMark(t)'
      BY <1>11, <1>12, <2>1, <2>4, <3>1 DEF ServesMark
    <3>3. PICK r \in Pids : r = q
      BY <1>5
    <3>4. MarkOnly(t, r)'
      <4>1. Blocked(r)'
        BY <1>1, <1>8, <3>3 DEF Blocked
      <4>2. Has(t, r)' \/ t \in closing'
        BY <1>1, <1>7, <1>12, <2>1, <2>2, <2>4, <3>3
      <4>3. \A u \in Sockets : Has(u, r)' \/ Done(u, r)' => u = t
        BY <1>9, <1>12, <2>2, <2>4, <3>3
      <4>4. \A u \in connections' : Alone(u)' /\ current'[u] = r => u = t
        BY <1>1, <1>2, <1>11, <1>13, <2>3, <2>4, <3>3
      <4> QED
        BY <1>12, <3>3, <4>1, <4>2, <4>3, <4>4 DEF MarkOnly
    <3> QED
      BY <1>11, <2>1, <2>4, <3>2, <3>3, <3>4
  <2>5. CASE t # c
    <3>1. ServesMark(t)'
      BY <1>11, <1>12, <2>1, <2>2, <2>5 DEF ServesMark
    <3>2. ASSUME NEW p \in Pids, current'[t] = p PROVE MarkOnly(t, p)'
      <4>1. MarkOnly(t, p) /\ p # q
        BY <1>2, <1>8, <1>11, <2>1, <2>5, <3>2 DEF MarkOnly
      <4>2. \A u \in connections' : Alone(u)' /\ current'[u] = p => u = t
        BY <1>1, <1>2, <1>11, <1>13, <4>1 DEF MarkOnly
      <4> QED
        BY <1>1, <1>12, <2>1, <4>1, <4>2 DEF MarkOnly, Blocked
    <3> QED
      BY <3>1, <3>2
  <2> QED
    BY <2>4, <2>5
<1> QED
  BY <1>14, <1>15, <1>16, <1>17, <1>18, <1>19 DEF Requests

\* The thread of a completed IO finds no connection: its device was lost.
LEMMA CompletionLostKeeps ==
    ASSUME InstancesStay, IoInv, NEW s \in Sockets, NEW q \in Pids, io_completion(s, q),
           s \notin connections
    PROVE  Requests'
<1>1. /\ UNCHANGED <<setup, connections, current, links, queue, list, pending, arriving>>
      /\ UNCHANGED <<closing, seen, alive, inbox>>
      /\ <<s, q>> \in completions /\ completions' = completions \ {<<s, q>>}
  BY DEF io_completion, devices
<1>2. s \in seen /\ s \notin alive
  BY <1>1 DEF IoInv, Lives, Fresh
<1>3. Alone(s)
  BY <1>2, ClosingAlone
<1>4. /\ \A n, p : Waits(n, p)' <=> Waits(n, p)
      /\ \A t, p : Has(t, p)' <=> Has(t, p)
      /\ \A t, p : Done(t, p)' <=> Done(t, p)
  BY <1>1 DEF Waits, Has, Done
<1>5. \A t : Alone(t)' <=> Alone(t)
  BY <1>1 DEF Alone, Device
<1>6. Lives'
  BY <1>1 DEF IoInv, Lives, Fresh
<1>7. Linked'
  BY <1>1 DEF IoInv, Linked, Device
<1>8. FreeOrWorking'
  <2>1. \A t \in Sockets : t # s /\ Working(t) => Working(t)'
    BY <1>1 DEF Working
  <2>2. ConnectionsOf(Device(s)) = {}
    BY <1>3 DEF IoInv, TypeOK, ConnectionsOf, Alone
  <2>3. \A n : ConnectionsOf(n)' = ConnectionsOf(n) /\ FreeConnections(n)' = FreeConnections(n)
    BY <1>1 DEF ConnectionsOf, FreeConnections, Device
  <2> QED
    BY <1>1, <2>1, <2>2, <2>3 DEF IoInv, FreeOrWorking, Device
<1>9. Single'
  BY <1>1, <1>4 DEF IoInv, Single
<1>10. Asked'
  BY <1>1, <1>4 DEF IoInv, Asked, Asks, Blocked, Orphan
<1>11. Marks'
  BY <1>1, <1>4, <1>5 DEF IoInv, Marks, ServesMark, MarkOnly, Blocked
<1> QED
  BY <1>6, <1>7, <1>8, <1>9, <1>10, <1>11 DEF Requests

\* The thread of a completed IO wakes its process and frees the connection.
LEMMA CompletionKeeps ==
    ASSUME InstancesStay, IoInv, NEW s \in Sockets, NEW q \in Pids, io_completion(s, q),
           s \in connections
    PROVE  Requests'
<1>1. /\ UNCHANGED <<setup, connections, links, queue, arriving, closing, seen, alive, inbox>>
      /\ <<s, q>> \in completions /\ completions' = completions \ {<<s, q>>}
      /\ list' = IF Blocked(q) THEN [list EXCEPT ![q] = "out"] ELSE list
      /\ current' = [current EXCEPT ![s] = NoPid]
      /\ CallPending(s)
  BY DEF io_completion, devices
<1>2. /\ pending \in [Sockets -> Nat] /\ current \in [Sockets -> Pids \cup {NoPid}]
      /\ list \in [Pids -> {"out", "BLOCKED", "SUSP_BLOCKED", "EXIT"}]
      /\ connections \subseteq Sockets
  BY DEF IoInv, TypeOK
<1>3. Done(s, q)
  BY <1>1 DEF Done
<1>4. /\ \A p \in Pids : Blocked(p)' <=> Blocked(p) /\ p # q
      /\ Blocked(q)
  <2>1. Blocked(q)
    BY <1>3 DEF IoInv, Asked, Asks
  <2> QED
    BY <1>1, <1>2, <2>1 DEF Blocked
<1>5. /\ \A n, p : Waits(n, p)' <=> Waits(n, p)
      /\ \A t, p : Has(t, p)' <=> Has(t, p)
      /\ \A t \in Sockets, p \in Pids : Done(t, p)' <=> Done(t, p) /\ p # q
  <2>1. \A t \in Sockets : Done(t, q) => t = s
    BY <1>3 DEF IoInv, Single
  <2>2. \A t \in Sockets, p \in Pids : Done(t, p)' <=> Done(t, p) /\ ~(t = s /\ p = q)
    BY <1>1 DEF Done
  <2> QED
    BY <1>1, <2>1, <2>2 DEF Waits, Has
<1>6. /\ \A t \in Sockets : current'[t] = IF t = s THEN NoPid ELSE current[t]
      /\ \A t \in Sockets : t # s => pending'[t] = pending[t]
  BY <1>1, <1>2 DEF CallPending
<1>7. /\ \A n \in Names : ~Waits(n, q)
      /\ \A t \in Sockets : ~Has(t, q)
      /\ \A t \in Sockets : Done(t, q) => t = s
  BY <1>3 DEF IoInv, Single
<1>8. \A t : Alone(t)' <=> Alone(t)
  BY <1>1 DEF Alone, Device
<1>9. Lives'
  <2>1. s \in seen /\ s \notin arriving
    BY <1>2 DEF IoInv, Lives, Fresh
  <2> QED
    BY <1>1, <1>6, <2>1 DEF IoInv, Lives, Fresh
<1>10. Linked'
  BY <1>1 DEF IoInv, Linked, Device
<1>11. FreeOrWorking'
  <2> SUFFICES ASSUME NEW n \in Names, ConnectionsOf(n)' # {}, FreeConnections(n)' = {}
               PROVE  \E t \in Sockets : Device(t) = n /\ Working(t)'
    BY <1>1 DEF FreeOrWorking, Device
  <2>1. \A t \in Sockets : t # s /\ Working(t) => Working(t)'
    BY <1>1 DEF Working
  <2>2. n # Device(s)
    BY <1>1, <1>6 DEF FreeConnections, ConnectionsOf, Device
  <2>3. ConnectionsOf(n)' = ConnectionsOf(n)
    BY <1>1 DEF ConnectionsOf, Device
  <2>4. FreeConnections(n)' = FreeConnections(n)
    BY <1>2, <1>6, <2>2, <2>3 DEF FreeConnections, ConnectionsOf
  <2> QED
    BY <2>1, <2>2, <2>3, <2>4 DEF IoInv, FreeOrWorking
<1>12. Single'
  BY <1>1, <1>5 DEF IoInv, Single
<1>13. Asked'
  <2> SUFFICES ASSUME NEW p \in Pids
               PROVE  (Asks(p)' => Blocked(p)') /\ (Blocked(p)' => Asks(p)' \/ Orphan(p)')
    BY DEF Asked
  <2>1. (Asks(p) => Blocked(p)) /\ (Blocked(p) => Asks(p) \/ Orphan(p))
    BY DEF IoInv, Asked
  <2>2. CASE p = q
    BY <1>1, <1>4, <1>5, <1>7, <2>2 DEF Asks
  <2>3. CASE p # q
    <3>1. Asks(p)' <=> Asks(p)
      BY <1>1, <1>5, <2>3 DEF Asks
    <3>2. s \in closing => current[s] = q
      BY <1>3, ClosingAlone DEF IoInv, Marks, ServesMark
    <3>3. Orphan(p) => Orphan(p)'
      BY <1>1, <1>2, <1>6, <2>3, <3>2 DEF Orphan
    <3> QED
      BY <1>4, <2>1, <2>3, <3>1, <3>3
  <2> QED
    BY <2>2, <2>3
<1>14. Marks'
  <2> SUFFICES ASSUME NEW t \in connections, Alone(t)
               PROVE  ServesMark(t)' /\ \A p \in Pids : current'[t] = p => MarkOnly(t, p)'
    BY <1>1, <1>8 DEF Marks
  <2>1. t \in Sockets /\ ServesMark(t) /\ \A p \in Pids : current[t] = p => MarkOnly(t, p)
    BY <1>2 DEF IoInv, Marks
  <2>2. CASE t = s
    <3>1. current[s] = q
      BY <1>3, <2>1, <2>2 DEF ServesMark
    <3>2. ServesMark(t)'
      BY <1>5, <1>7, <2>1, <2>2, <3>1 DEF ServesMark
    <3> QED
      BY <1>6, <2>1, <2>2, <3>2, IoAssumption
  <2>3. CASE t # s
    <3>1. ServesMark(t)'
      BY <1>5, <1>6, <2>1, <2>3 DEF ServesMark
    <3>2. ASSUME NEW p \in Pids, current'[t] = p PROVE MarkOnly(t, p)'
      <4>1. MarkOnly(t, p)
        BY <1>6, <2>1, <2>3, <3>2
      <4>2. p # q
        BY <1>3, <2>3, <4>1 DEF MarkOnly
      <4>3. \A u \in connections' : Alone(u)' /\ current'[u] = p => u = t
        BY <1>1, <1>2, <1>6, <1>8, <4>1, IoAssumption DEF MarkOnly
      <4> QED
        BY <1>1, <1>4, <1>5, <2>1, <4>1, <4>2, <4>3 DEF MarkOnly
    <3> QED
      BY <3>1, <3>2
  <2> QED
    BY <2>2, <2>3
<1> QED
  BY <1>9, <1>10, <1>11, <1>12, <1>13, <1>14 DEF Requests

\* The connection of a lost device is given up, and its process ends.
LEMMA DisconnectedKeeps ==
    ASSUME InstancesStay, IoInv, NEW s \in Sockets, io_disconnected(s)
    PROVE  Requests'
<1>1. /\ UNCHANGED <<setup, links, queue, pending, arriving, completions, seen, alive, inbox>>
      /\ s \in closing /\ closing' = closing \ {s}
      /\ connections' = connections \ {s}
      /\ s \notin connections => UNCHANGED <<list, current>>
      /\ s \in connections => EndProcessOf(s) /\ current' = [current EXCEPT ![s] = NoPid]
  BY DEF io_disconnected, devices
<1>2. /\ current \in [Sockets -> Pids \cup {NoPid}]
      /\ list \in [Pids -> {"out", "BLOCKED", "SUSP_BLOCKED", "EXIT"}]
      /\ connections \subseteq Sockets /\ closing \subseteq Sockets
      /\ inbox \in [Sockets -> Seq(Pids)]
  BY DEF IoInv, TypeOK
<1>3. s \in seen /\ s \notin alive /\ s \notin arriving /\ Alone(s) /\ inbox[s] = <<>>
  BY <1>1, ClosingAlone
<1>4. \A p : ~Has(s, p)
  BY <1>2, <1>3, RangeElements DEF Has
<1>5. /\ \A n, p : Waits(n, p)' <=> Waits(n, p)
      /\ \A t, p : Has(t, p)' <=> Has(t, p)
      /\ \A t, p : Done(t, p)' <=> Done(t, p) /\ t # s
  BY <1>1 DEF Waits, Has, Done
<1>6. /\ \A t \in Sockets : t # s => current'[t] = current[t]
      /\ s \in connections => current'[s] = NoPid
  BY <1>1, <1>2
<1>7. PICK q : q = IF s \in connections THEN current[s] ELSE NoPid
  OBVIOUS
<1>8. /\ q \in Pids => s \in connections /\ MarkOnly(s, q)
      /\ \A p \in Pids : Done(s, p) => p = q
      /\ q \in Pids \cup {NoPid}
  <2>1. s \in connections => ServesMark(s) /\ \A p \in Pids : current[s] = p => MarkOnly(s, p)
    BY <1>3 DEF IoInv, Marks
  <2> QED
    BY <1>2, <1>7, <2>1, IoAssumption DEF ServesMark, Done
<1>9. \A p \in Pids : Blocked(p)' <=> Blocked(p) /\ p # q
  <2>1. CASE q \in Pids
    <3>1. s \in connections /\ q = current[s] /\ Blocked(q)
      BY <1>7, <1>8, <2>1 DEF MarkOnly
    <3>2. list' = [list EXCEPT ![q] = "EXIT"]
      BY <1>1, <2>1, <3>1, IoAssumption DEF EndProcessOf, TrulyBusy
    <3> QED
      BY <1>2, <2>1, <3>1, <3>2 DEF Blocked
  <2>2. CASE q \notin Pids
    <3>1. s \in connections => current[s] = NoPid
      BY <1>2, <1>7, <2>2
    <3>2. list' = list
      BY <1>1, <3>1 DEF EndProcessOf, TrulyBusy
    <3> QED
      BY <2>2, <3>2 DEF Blocked
  <2> QED
    BY <2>1, <2>2
<1>10. \A t : Alone(t)' <=> Alone(t)
  BY <1>1 DEF Alone, Device
<1>11. Lives'
  <2> SUFFICES ASSUME NEW t \in Sockets
               PROVE  /\ t \notin seen \/ t \in arriving => Fresh(t)'
                      /\ t \in arriving => t \in alive
                      /\ t \in alive /\ t \notin arriving => t \in connections' /\ t \notin closing'
                      /\ t \in seen /\ t \notin alive =>
                            /\ t \in setup.mortal /\ inbox[t] = <<>>
                            /\ t \in connections' => t \in closing'
    BY <1>1 DEF Lives
  <2>1. CASE t = s
    BY <1>1, <1>3, <2>1 DEF IoInv, Lives
  <2>2. CASE t # s
    BY <1>1, <1>6, <2>2 DEF IoInv, Lives, Fresh
  <2> QED
    BY <2>1, <2>2
<1>12. Linked'
  BY <1>1 DEF IoInv, Linked, Device
<1>13. FreeOrWorking'
  <2> SUFFICES ASSUME NEW n \in Names, ConnectionsOf(n)' # {}, FreeConnections(n)' = {}
               PROVE  \E t \in Sockets : Device(t) = n /\ Working(t)'
    BY <1>1 DEF FreeOrWorking, Device
  <2>1. \A t \in Sockets : t # s /\ Working(t) => Working(t)'
    BY <1>1 DEF Working
  <2>2. n # Device(s)
    BY <1>1, <1>2, <1>3 DEF ConnectionsOf, Device, Alone
  <2>3. ConnectionsOf(n)' = ConnectionsOf(n)
    BY <1>1, <2>2 DEF ConnectionsOf, Device
  <2>4. FreeConnections(n)' = FreeConnections(n)
    BY <1>2, <1>6, <2>2, <2>3 DEF FreeConnections, ConnectionsOf
  <2> QED
    BY <2>1, <2>2, <2>3, <2>4 DEF IoInv, FreeOrWorking
<1>14. Single'
  BY <1>1, <1>5 DEF IoInv, Single
<1>15. Asked'
  <2> SUFFICES ASSUME NEW p \in Pids
               PROVE  (Asks(p)' => Blocked(p)') /\ (Blocked(p)' => Asks(p)' \/ Orphan(p)')
    BY DEF Asked
  <2>1. (Asks(p) => Blocked(p)) /\ (Blocked(p) => Asks(p) \/ Orphan(p))
    BY DEF IoInv, Asked
  <2>2. CASE p = q
    <3>1. ~Asks(p)'
      BY <1>4, <1>5, <1>8, <2>2 DEF Asks, MarkOnly
    <3> QED
      BY <1>9, <2>2, <3>1
  <2>3. CASE p # q
    <3>1. Asks(p)' <=> Asks(p)
      BY <1>1, <1>5, <1>8, <2>3 DEF Asks
    <3>2. Orphan(p) => Orphan(p)'
      BY <1>1, <1>2, <1>6, <1>7, <2>3 DEF Orphan
    <3> QED
      BY <1>9, <2>1, <2>3, <3>1, <3>2
  <2> QED
    BY <2>2, <2>3
<1>16. Marks'
  <2> SUFFICES ASSUME NEW t \in connections', Alone(t)
               PROVE  ServesMark(t)' /\ \A p \in Pids : current'[t] = p => MarkOnly(t, p)'
    BY <1>10 DEF Marks
  <2>1. t \in connections /\ t # s /\ t \in Sockets /\ current'[t] = current[t]
    BY <1>1, <1>2, <1>6
  <2>2. ServesMark(t) /\ \A p \in Pids : current[t] = p => MarkOnly(t, p)
    BY <2>1 DEF IoInv, Marks
  <2>3. ServesMark(t)'
    BY <1>5, <2>1, <2>2 DEF ServesMark
  <2>4. ASSUME NEW p \in Pids, current'[t] = p PROVE MarkOnly(t, p)'
    <3>1. MarkOnly(t, p)
      BY <2>1, <2>2, <2>4
    <3>2. p # q
      BY <1>3, <1>7, <1>8, <2>1, <3>1 DEF MarkOnly
    <3>3. Has(t, p)' \/ Done(t, p)' \/ t \in closing'
      BY <1>1, <1>5, <2>1, <3>1 DEF MarkOnly
    <3>4. \A u \in connections' : Alone(u)' /\ current'[u] = p => u = t
      BY <1>1, <1>2, <1>6, <1>10, <3>1 DEF MarkOnly
    <3> QED
      BY <1>5, <1>9, <3>1, <3>2, <3>3, <3>4 DEF MarkOnly
  <2> QED
    BY <2>3, <2>4
<1> QED
  BY <1>11, <1>12, <1>13, <1>14, <1>15, <1>16 DEF Requests

-----------------------------------------------------------------------------
(* The invariant and what follows from it *)

\* Every step of the kernel's threads and of the devices keeps the invariant.
LEMMA IoStep ==
    InstancesStay /\ IoInv /\ [Next]_vars => IoInv'
<1> SUFFICES ASSUME InstancesStay, IoInv, [Next]_vars PROVE Requests'
  BY TypeStep DEF IoInv, Requests
<1>1. ASSUME NEW s \in Sockets, Connect(s) PROVE Requests'
  BY <1>1, ConnectKeeps
<1>2. ASSUME NEW s \in Sockets, Die(s) PROVE Requests'
  BY <1>2, DieKeeps
<1>3. ASSUME NEW s \in Sockets, ProcessOperation(s) PROVE Requests'
  BY <1>3, ProcessOperationKeeps
<1>4. ASSUME NEW s \in Sockets, process_new_device(s) PROVE Requests'
  BY <1>4, NewDeviceKeeps
<1>5. ASSUME NEW s \in Sockets, process_pending_io(s) PROVE Requests'
  BY <1>5, NothingSentKeeps, SentKeeps DEF process_pending_io
<1>6. ASSUME NEW s \in Sockets, NEW p \in Pids, io_completion(s, p) PROVE Requests'
  BY <1>6, CompletionKeeps, CompletionLostKeeps
<1>7. ASSUME NEW s \in Sockets, io_disconnected(s) PROVE Requests'
  BY <1>7, DisconnectedKeeps
<1>8. ASSUME NEW p \in Pids, NEW n \in Names, IoNotFound(p, n) PROVE Requests'
  BY <1>8, NotFoundKeeps
<1>9. ASSUME NEW p \in Pids, NEW n \in Names, handle_io_process_syscall(p, n) PROVE Requests'
  BY <1>9, IoCallKeeps
<1>10. ASSUME NEW p \in Pids, Suspend(p) PROVE Requests'
  BY <1>10, SuspendKeeps
<1>11. CASE UNCHANGED vars
  <2>1. /\ UNCHANGED <<setup, connections, current, links, queue, list, pending>>
        /\ UNCHANGED <<completions, closing, inbox, seen, alive, arriving>>
    BY <1>11 DEF vars, kernel, procs, threads, devices
  <2>2. Lives' /\ Linked'
    BY <2>1 DEF IoInv, Lives, Fresh, Linked, Device
  <2> QED
    BY <2>1, <2>2, SameRequests DEF IoInv, Requests
<1> QED
  BY <1>1, <1>2, <1>3, <1>4, <1>5, <1>6, <1>7, <1>8, <1>9, <1>10, <1>11 DEF Next, Thread

\* The invariant holds when the kernel starts.
LEMMA IoInit == Init => IoInv
<1> SUFFICES ASSUME Init PROVE IoInv
  OBVIOUS
<1> USE IoAssumption
<1>1. TypeOK
  BY DEF Init, TypeOK
<1>2. Range(<<>>) = {} /\ IsInjective(<<>>)
  <2>1. <<>> \in Seq(Pids) /\ DOMAIN <<>> = {}
    OBVIOUS
  <2> QED
    BY <2>1, RangeElements DEF IsInjective
<1>3. /\ \A n \in Names : \A p : ~Waits(n, p)
      /\ \A s \in Sockets : \A p : ~Has(s, p) /\ ~Done(s, p)
  BY <1>2 DEF Init, Waits, Has, Done
<1>4. Lives /\ Linked
  BY DEF Init, Lives, Fresh, Linked
<1>5. FreeOrWorking /\ Marks
  BY DEF Init, FreeOrWorking, ConnectionsOf, Marks
<1>6. Single
  BY <1>2, <1>3 DEF Init, Single
<1>7. Asked
  BY <1>3 DEF Init, Asked, Asks, Blocked
<1> QED
  BY <1>1, <1>4, <1>5, <1>6, <1>7 DEF IoInv

\* Whatever the order of the threads, with any number of devices and of
\* instances, as long as no device is lost that has another instance: the
\* table, the queues, the devices and the lists of blocked processes agree.
THEOREM IoInvariant == InstancesStay /\ Spec => []IoInv
<1> SUFFICES ASSUME InstancesStay PROVE Spec => []IoInv
  OBVIOUS
<1>1. IoInv /\ [Next]_vars => IoInv'
  BY IoStep
<1> QED
  BY <1>1, IoInit, PTL DEF Spec

\* The mark of a connection is the process its device serves: io_disconnected
\* ends that process and no other, for every device with one instance.
THEOREM MarkIsServed == InstancesStay /\ Spec => []CurrentIsServedAlone
<1>1. IoInv => CurrentIsServedAlone
  <2> SUFFICES ASSUME IoInv, NEW s \in connections, s \notin closing, Alone(s), NEW p \in Pids
               PROVE  current[s] = p <=> (p \in Range(inbox[s]) \/ <<s, p>> \in completions)
    BY DEF CurrentIsServedAlone, MarkOf
  <2>1. ServesMark(s) /\ (current[s] = p => MarkOnly(s, p))
    BY DEF IoInv, Marks
  <2> QED
    BY <2>1 DEF ServesMark, MarkOnly, Has, Done
<1> QED
  BY <1>1, IoInvariant, PTL

\* Where a value is in a family of lists: in no place if no list has it, and
\* in at most one if no list has it twice and no two lists have it.
LEMMA OnePlace ==
    ASSUME NEW T, NEW f, NEW p,
           \A n \in T : f[n] \in Seq(Pids) /\ IsInjective(f[n]),
           \A n, m \in T : p \in Range(f[n]) /\ p \in Range(f[m]) => n = m,
           NEW W,
           \A x : x \in W <=> \E n \in T : \E i \in DOMAIN f[n] : f[n][i] = p /\ x = <<n, i>>
    PROVE  /\ (\A n \in T : p \notin Range(f[n])) => W = {} /\ Cardinality(W) = 0
           /\ (\E n \in T : p \in Range(f[n])) => Cardinality(W) = 1
<1>1. \A x : x \in W <=> \E n \in T : \E i \in DOMAIN f[n] : f[n][i] = p /\ x = <<n, i>>
  OBVIOUS
<1>2. (\A n \in T : p \notin Range(f[n])) => W = {}
  BY <1>1 DEF Range
<1>3. (\E n \in T : p \in Range(f[n])) => \E x : W = {x}
  <2> SUFFICES ASSUME NEW n \in T, p \in Range(f[n]) PROVE \E x : W = {x}
    OBVIOUS
  <2>1. PICK i \in DOMAIN f[n] : f[n][i] = p
    BY DEF Range
  <2>2. <<n, i>> \in W
    BY <1>1, <2>1
  <2>3. ASSUME NEW y \in W PROVE y = <<n, i>>
    <3>1. PICK m \in T : \E j \in DOMAIN f[m] : f[m][j] = p /\ y = <<m, j>>
      BY <1>1
    <3>2. PICK j \in DOMAIN f[m] : f[m][j] = p /\ y = <<m, j>>
      BY <3>1
    <3>3. p \in Range(f[m])
      BY <3>2 DEF Range
    <3>4. m = n
      BY <3>3
    <3>5. j = i
      BY <2>1, <3>2, <3>4 DEF IsInjective
    <3> QED
      BY <3>2, <3>4, <3>5
  <2>4. W = {<<n, i>>}
    BY <2>2, <2>3
  <2> QED
    BY <2>4
<1> QED
  BY <1>2, <1>3, FS_EmptySet, FS_Singleton

\* A blocked process has one request, in one queue, at one device or on its way
\* back; the others have none: process_pending_io neither loses nor repeats one.
THEOREM RequestsAreSingle == InstancesStay /\ Spec => []OneRequest
<1>1. IoInv => OneRequest
  <2> SUFFICES ASSUME IoInv, NEW p \in Pids
               PROVE  /\ Blocked(p) /\ ~Orphan(p) => Places(p) = 1
                      /\ Blocked(p) /\ Orphan(p) => Places(p) <= 1
                      /\ ~Blocked(p) => Queued(p) = {} /\ AtDevice(p) = {}
    BY DEF OneRequest
  <2> DEFINE Q == \E n \in Names : Waits(n, p)
             D == \E s \in Sockets : Has(s, p)
             F == \E s \in Sockets : Done(s, p)
  <2>1. /\ \A n \in Names : queue[n] \in Seq(Pids) /\ IsInjective(queue[n])
        /\ \A s \in Sockets : inbox[s] \in Seq(Pids) /\ IsInjective(inbox[s])
    BY DEF IoInv, TypeOK, Single
  <2>2. /\ ~Q => Queued(p) = {} /\ Cardinality(Queued(p)) = 0
        /\ Q => Cardinality(Queued(p)) = 1
    <3>1. \A n, m \in Names : p \in Range(queue[n]) /\ p \in Range(queue[m]) => n = m
      BY DEF IoInv, Single, Waits
    <3>2. PICK W : W = Queued(p)
      OBVIOUS
    <3>3. \A x : x \in W <=>
             \E n \in Names : \E i \in DOMAIN queue[n] : queue[n][i] = p /\ x = <<n, i>>
      BY <3>2 DEF Queued
    <3>4. /\ (\A n \in Names : p \notin Range(queue[n])) => W = {} /\ Cardinality(W) = 0
          /\ (\E n \in Names : p \in Range(queue[n])) => Cardinality(W) = 1
      BY <2>1, <3>1, <3>3, OnePlace
    <3> QED
      BY <3>2, <3>4 DEF Waits
  <2>3. /\ ~D => AtDevice(p) = {} /\ Cardinality(AtDevice(p)) = 0
        /\ D => Cardinality(AtDevice(p)) = 1
    <3>1. \A n, m \in Sockets : p \in Range(inbox[n]) /\ p \in Range(inbox[m]) => n = m
      BY DEF IoInv, Single, Has
    <3>2. PICK W : W = AtDevice(p)
      OBVIOUS
    <3>3. \A x : x \in W <=>
             \E n \in Sockets : \E i \in DOMAIN inbox[n] : inbox[n][i] = p /\ x = <<n, i>>
      BY <3>2 DEF AtDevice
    <3>4. /\ (\A n \in Sockets : p \notin Range(inbox[n])) => W = {} /\ Cardinality(W) = 0
          /\ (\E n \in Sockets : p \in Range(inbox[n])) => Cardinality(W) = 1
      BY <2>1, <3>1, <3>3, OnePlace
    <3> QED
      BY <3>2, <3>4 DEF Has
  <2>4. (~F => Cardinality(Finished(p)) = 0) /\ (F => Cardinality(Finished(p)) = 1)
    <3>1. Finished(p) = { s \in Sockets : Done(s, p) }
      BY DEF IoInv, TypeOK, Finished, Done
    <3>2. \A s, t \in Sockets : Done(s, p) /\ Done(t, p) => s = t
      BY DEF IoInv, Single
    <3>3. ~F => Finished(p) = {}
      BY <3>1
    <3>4. F => \E s : Finished(p) = {s}
      BY <3>1, <3>2
    <3> QED
      BY <3>3, <3>4, FS_EmptySet, FS_Singleton
  <2>5. ~(Q /\ D) /\ ~(Q /\ F) /\ ~(D /\ F)
    BY DEF IoInv, Single
  <2>6. (Q \/ D \/ F => Blocked(p)) /\ (Blocked(p) => Q \/ D \/ F \/ Orphan(p))
    BY DEF IoInv, Asked, Asks
  <2> HIDE DEF Q, D, F
  <2> QED
    BY <2>2, <2>3, <2>4, <2>5, <2>6 DEF Places
<1> QED
  BY <1>1, IoInvariant, PTL

-----------------------------------------------------------------------------
(* No request is forgotten *)

\* Something is still to come that will look at the queue of the device.
Awaits(s) == Working(s) \/ pending[s] > 0 \/ s \in arriving

Remembered ==
    \A n \in Names :
        queue[n] # <<>> /\ ConnectionsOf(n) # {} => \E s \in Sockets : Device(s) = n /\ Awaits(s)

\* A request stays remembered when nothing is queued, no connection is made,
\* and only for one name something that was to come has come.
LEMMA RememberedElsewhere ==
    ASSUME Remembered, setup' = setup, NEW m,
           \A n \in Names : n # m =>
               /\ queue'[n] # <<>> => queue[n] # <<>>
               /\ ConnectionsOf(n)' \subseteq ConnectionsOf(n),
           \A t \in Sockets : Device(t) # m /\ Awaits(t) => Awaits(t)',
           m \in Names /\ queue'[m] # <<>> /\ ConnectionsOf(m)' # {} =>
               \E t \in Sockets : Device(t) = m /\ Awaits(t)'
    PROVE  Remembered'
<1> SUFFICES ASSUME NEW n \in Names, queue'[n] # <<>>, ConnectionsOf(n)' # {}
             PROVE  \E t \in Sockets : Device(t) = n /\ Awaits(t)'
  BY DEF Remembered, Device
<1>1. CASE n = m
  BY <1>1
<1>2. CASE n # m
  BY <1>2 DEF Remembered
<1> QED
  BY <1>1, <1>2

\* Every step keeps the requests remembered.
LEMMA RememberedStep ==
    ASSUME InstancesStay, IoInv, Remembered, [Next]_vars
    PROVE  Remembered'
<1>0. /\ pending \in [Sockets -> Nat] /\ connections \subseteq Sockets
      /\ inbox \in [Sockets -> Seq(Pids)]
      /\ \A t \in Sockets : Device(t) \in Names
  BY IoAssumption DEF IoInv, TypeOK, Device
<1>1. ASSUME NEW s \in Sockets, Connect(s) \/ Die(s) \/ ProcessOperation(s) PROVE Remembered'
  <2>1. UNCHANGED <<setup, connections, queue, pending>> /\ arriving \subseteq arriving'
    BY <1>1 DEF Connect, Die, ProcessOperation, kernel
  <2>2. ASSUME NEW t \in Sockets, Working(t) PROVE Working(t)'
    <3>1. CASE Connect(s)
      BY <2>2, <3>1 DEF Connect, Working
    <3>2. CASE Die(s)
      BY <1>0, <2>2, <3>2 DEF Die, Working
    <3>3. CASE ProcessOperation(s)
      <4>1. Head(inbox[s]) \in Pids
        BY <1>0, <3>3, TailFacts DEF ProcessOperation
      <4> QED
        BY <1>0, <2>2, <3>3, <4>1 DEF ProcessOperation, Working
    <3> QED
      BY <1>1, <3>1, <3>2, <3>3
  <2>3. \A t \in Sockets : Awaits(t) => Awaits(t)'
    BY <2>1, <2>2 DEF Awaits
  <2> QED
    BY <2>1, <2>3 DEF Remembered, ConnectionsOf, Device
<1>2. ASSUME NEW s \in Sockets, process_new_device(s) PROVE Remembered'
  <2>1. /\ UNCHANGED <<setup, queue, completions, closing, inbox>>
        /\ s \in arriving /\ arriving' = arriving \ {s}
        /\ connections' = connections \cup {s}
        /\ Device(s) \in links => CallPending(s)
        /\ Device(s) \notin links => UNCHANGED pending
    BY <1>2 DEF process_new_device, devices
  <2>2. \A t \in Sockets : t # s /\ Awaits(t) => Awaits(t)'
    BY <1>0, <2>1 DEF Awaits, Working, CallPending
  <2>3. Device(s) \in links => Awaits(s)'
    BY <1>0, <2>1 DEF Awaits, CallPending
  <2>4. Device(s) \notin links => queue'[Device(s)] = <<>>
    BY <1>0, <2>1 DEF IoInv, Linked
  <2>5. \A n \in Names : n # Device(s) => ConnectionsOf(n)' = ConnectionsOf(n)
    BY <2>1 DEF ConnectionsOf, Device
  <2>6. PICK m : m = Device(s)
    OBVIOUS
  <2> QED
    BY <2>1, <2>2, <2>3, <2>4, <2>5, <2>6, RememberedElsewhere
<1>3. ASSUME NEW s \in Sockets, process_pending_io(s) PROVE Remembered'
  <2> DEFINE m == Device(s)
  <2>1. /\ UNCHANGED <<setup, connections, arriving, completions, closing, seen, alive>>
        /\ pending[s] > 0 /\ pending' = [pending EXCEPT ![s] = pending[s] - 1]
    BY <1>3 DEF process_pending_io
  <2>2. s \in seen /\ s \notin arriving
    <3>1. pending[s] # 0
      BY <2>1
    <3> QED
      BY <3>1 DEF IoInv, Lives, Fresh
  <2>3. s \notin alive /\ ConnectionsOf(m) # {} => s \in closing
    <3> SUFFICES ASSUME s \notin alive, ConnectionsOf(m) # {} PROVE s \in closing
      OBVIOUS
    <3>1. Alone(s)
      BY <2>2, ClosingAlone
    <3>2. s \in connections
      BY <1>0, <3>1 DEF ConnectionsOf, Alone
    <3> QED
      BY <2>2, <3>2 DEF IoInv, Lives
  <2>4. \A n : ConnectionsOf(n)' = ConnectionsOf(n)
    BY <2>1 DEF ConnectionsOf, Device
  <2>5. CASE /\ NothingToSend(m) \/ s \notin alive
             /\ UNCHANGED <<queue, current, inbox>>
    <3>1. \A t \in Sockets : t # s /\ Awaits(t) => Awaits(t)'
      BY <1>0, <2>1, <2>5 DEF Awaits, Working
    <3>2. \A t : Working(t) => Awaits(t)'
      BY <2>1, <2>5 DEF Awaits, Working
    <3>3. ASSUME m \in Names, queue'[m] # <<>>, ConnectionsOf(m) # {}
          PROVE  \E t \in Sockets : Device(t) = m /\ Awaits(t)'
      <4>1. CASE s \notin alive
        BY <2>3, <3>2, <3>3, <4>1 DEF Working
      <4>2. CASE NothingToSend(m)
        <5>1. TrulyBusy(ConnectionStatus(m))
          BY <2>5, <3>3, <4>2 DEF NothingToSend
        <5>2. FreeConnections(m) = {}
          BY <3>3, <5>1, StatusMember DEF IoInv, FreeConnections, TrulyBusy
        <5> QED
          BY <3>2, <3>3, <5>2 DEF IoInv, FreeOrWorking
      <4> QED
        BY <2>5, <4>1, <4>2
    <3>4. PICK n : n = m
      OBVIOUS
    <3> QED
      BY <2>1, <2>4, <2>5, <3>1, <3>3, <3>4, RememberedElsewhere
  <2>6. CASE ~NothingToSend(m) /\ SendRequest(s, m)
    <3>1. ConnectionsOf(m) # {} /\ queue[m] # <<>>
      BY <2>6 DEF NothingToSend
    <3>2. /\ inbox' = IF s \in alive
                      THEN [inbox EXCEPT ![s] = Append(inbox[s], Head(queue[m]))] ELSE inbox
          /\ queue' = [queue EXCEPT ![m] = Tail(queue[m])]
      BY <2>6 DEF SendRequest, Deliver
    <3>3. Append(inbox[s], Head(queue[m])) # <<>>
      <4>1. Head(queue[m]) \in Pids
        BY <1>0, <3>1, TailFacts DEF IoInv, TypeOK
      <4> QED
        BY <1>0, <4>1, AppendFacts
    <3>4. \A t \in Sockets : t # s /\ Awaits(t) => Awaits(t)'
      BY <1>0, <2>1, <3>2 DEF Awaits, Working
    <3>5. Awaits(s)'
      BY <1>0, <2>1, <2>3, <3>1, <3>2, <3>3 DEF Awaits, Working
    <3>6. \A n \in Names : n # m => queue'[n] = queue[n]
      BY <3>2 DEF IoInv, TypeOK
    <3>7. PICK n : n = m
      OBVIOUS
    <3> QED
      BY <2>1, <2>4, <3>4, <3>5, <3>6, <3>7, RememberedElsewhere
  <2> QED
    BY <1>3, <2>5, <2>6 DEF process_pending_io
<1>4. ASSUME NEW s \in Sockets, NEW p \in Pids, io_completion(s, p) PROVE Remembered'
  <2>1. /\ UNCHANGED <<setup, connections, queue, arriving, closing, inbox>>
        /\ <<s, p>> \in completions /\ completions' = completions \ {<<s, p>>}
        /\ s \in connections => CallPending(s)
        /\ s \notin connections => UNCHANGED pending
    BY <1>4 DEF io_completion, devices
  <2>2. \A t \in Sockets : t # s /\ Awaits(t) => Awaits(t)'
    BY <1>0, <2>1 DEF Awaits, Working, CallPending
  <2>3. s \in connections => Awaits(s)'
    BY <1>0, <2>1 DEF Awaits, CallPending
  <2>4. s \notin connections => ConnectionsOf(Device(s)) = {}
    <3> SUFFICES ASSUME s \notin connections PROVE ConnectionsOf(Device(s)) = {}
      OBVIOUS
    <3>1. s \in seen /\ s \notin alive
      BY <2>1 DEF IoInv, Lives, Fresh
    <3>2. Alone(s)
      BY <3>1, ClosingAlone
    <3> QED
      BY <1>0, <3>2 DEF ConnectionsOf, Alone
  <2>5. \A n : ConnectionsOf(n)' = ConnectionsOf(n)
    BY <2>1 DEF ConnectionsOf, Device
  <2>6. PICK m : m = Device(s)
    OBVIOUS
  <2> QED
    BY <2>1, <2>2, <2>3, <2>4, <2>5, <2>6, RememberedElsewhere
<1>5. ASSUME NEW s \in Sockets, io_disconnected(s) PROVE Remembered'
  <2>1. /\ UNCHANGED <<setup, queue, pending, arriving, completions, inbox>>
        /\ s \in closing /\ closing' = closing \ {s} /\ connections' = connections \ {s}
    BY <1>5 DEF io_disconnected, devices
  <2>2. Alone(s)
    BY <2>1, ClosingAlone
  <2>3. \A t \in Sockets : t # s /\ Awaits(t) => Awaits(t)'
    BY <2>1 DEF Awaits, Working
  <2>4. /\ ConnectionsOf(Device(s))' = {}
        /\ \A n : ConnectionsOf(n)' \subseteq ConnectionsOf(n)
    BY <1>0, <2>1, <2>2 DEF ConnectionsOf, Device, Alone
  <2>5. PICK m : m = Device(s)
    OBVIOUS
  <2>6. ConnectionsOf(m)' = {}
    BY <1>0, <2>1, <2>2, <2>5 DEF ConnectionsOf, Device, Alone
  <2> QED
    BY <2>1, <2>3, <2>4, <2>5, <2>6, RememberedElsewhere
<1>6. ASSUME NEW p \in Pids, NEW n \in Names, handle_io_process_syscall(p, n) PROVE Remembered'
  <2>1. /\ UNCHANGED <<setup, connections, arriving, completions, closing, inbox>>
        /\ ConnectionsOf(n) # {}
        /\ queue' = [queue EXCEPT ![n] = Append(queue[n], p)]
        /\ CallPending(ConnectionStatus(n))
    BY <1>6 DEF handle_io_process_syscall, devices
  <2>2. PICK c \in connections : Device(c) = n /\ CallPending(c)
    BY <2>1, StatusMember DEF IoInv, ConnectionsOf
  <2>3. \A t \in Sockets : pending[t] > 0 => pending'[t] > 0
    BY <1>0, <2>2 DEF CallPending
  <2>4. \A t \in Sockets : Awaits(t) => Awaits(t)'
    BY <2>1, <2>3 DEF Awaits, Working
  <2>5. c \in Sockets /\ Awaits(c)'
    BY <1>0, <2>2 DEF Awaits, CallPending
  <2>6. \A m \in Names : m # n => queue'[m] = queue[m]
    BY <2>1 DEF IoInv, TypeOK
  <2>7. \A m : ConnectionsOf(m)' = ConnectionsOf(m)
    BY <2>1 DEF ConnectionsOf, Device
  <2> QED
    BY <2>1, <2>2, <2>4, <2>5, <2>6, <2>7, RememberedElsewhere
<1>7. CASE \/ UNCHANGED vars \/ \E p \in Pids : Suspend(p)
           \/ \E p \in Pids, n \in Names : IoNotFound(p, n)
  <2>1. UNCHANGED <<setup, connections, queue, pending, arriving, completions, closing, inbox>>
    BY <1>7 DEF vars, Suspend, IoNotFound, kernel, threads, devices
  <2> QED
    BY <2>1 DEF Remembered, Awaits, Working, ConnectionsOf, Device
<1> QED
  BY <1>1, <1>2, <1>3, <1>4, <1>5, <1>6, <1>7 DEF Next, Thread

\* A request that waits for a connected device is never left with nobody to look
\* at its queue: an IO of that device ends, or a thread is on its way.
THEOREM RequestsRemembered == InstancesStay /\ Spec => []RequestRemembered
<1> SUFFICES ASSUME InstancesStay PROVE Spec => []RequestRemembered
  OBVIOUS
<1>1. Init => Remembered
  BY DEF Init, Remembered
<1>2. IoInv /\ Remembered /\ [Next]_vars => Remembered'
  BY RememberedStep
<1>3. Remembered => RequestRemembered
  BY DEF Remembered, RequestRemembered, Awaits, Working
<1>4. Spec => []IoInv
  BY IoInvariant
<1> QED
  BY <1>1, <1>2, <1>3, <1>4, PTL DEF Spec
=============================================================================

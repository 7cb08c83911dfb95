----------------------------- MODULE IoDevices ------------------------------
(***************************************************************************)
(* The kernel's side of the IO devices, and the device program: the table  *)
(* of connections, the queue of requests of each device name, and the      *)
(* threads that read and write them.                                       *)
(*                                                                         *)
(* Every routine holds sem_io_connections from its first look at the table *)
(* to its last, so each is one action.  What is not one action is the pair *)
(* "a routine, then process_pending_io": the lock is given back in between *)
(* and the second half works with a socket found in the first.  The calls  *)
(* of process_pending_io still to come are counted by that socket in       *)
(* `pending`.                                                              *)
(*                                                                         *)
(* What is abstracted: the lists READY, SUSP_READY and EXEC are one place, *)
(* "out", from which a process may call IO again; sleep times; the bytes   *)
(* of the packages.  A kernel that SIGPIPE ends has no next state.         *)
(***************************************************************************)
EXTENDS Integers, Sequences, FiniteSets, SequencesExt, FiniteSetsExt

CONSTANTS
    Pids,
    Sockets,      \* numbers of the connections, in the order of the dictionary
    Names,        \* device names
    Setups,       \* [device : [Sockets -> Names], mortal : SUBSET Sockets]
    EarlyDeath,   \* a device may die before process_new_device has run for it
    MaxCalls,     \* bound on the IO calls of all processes
    NoPid         \* -1 in current_process_executing

ASSUME IoAssumption ==
    /\ Sockets \subseteq Nat /\ IsFiniteSet(Sockets)
    /\ Setups \subseteq [device : [Sockets -> Names], mortal : SUBSET Sockets]
    /\ EarlyDeath \in BOOLEAN /\ MaxCalls \in Nat
    /\ NoPid \notin Pids

VARIABLES
    setup,        \* which program is at the other end of each socket; constant
    connections,  \* sockets that have a t_io_connection
    current,      \* current_process_executing of each connection
    links,        \* names that have a t_io_requests_link
    queue,        \* io_requests_queue of each name
    list,         \* "out", "BLOCKED", "SUSP_BLOCKED" or "EXIT"
    calls,        \* IO calls made so far
    pending,      \* calls of process_pending_io to come, by client_socket
    arriving,     \* threads of process_new_device that have not run
    completions,  \* IO_COMPLETION packages and their threads: <<socket, pid>>
    closing,      \* sockets whose io_disconnected is to come
    seen, alive,  \* devices that connected, and those that still run
    inbox         \* what each device received: it serves the first

kernel == <<connections, current, links, queue>>
procs == <<list, calls>>
threads == <<pending, arriving, completions, closing>>
devices == <<seen, alive, inbox>>
vars == <<setup, kernel, procs, threads, devices>>

Device(s) == setup.device[s]
Blocked(p) == list[p] \in {"BLOCKED", "SUSP_BLOCKED"}

\* The connections of a device name.
ConnectionsOf(n) == { s \in connections : Device(s) = n }
FreeConnections(n) == { s \in ConnectionsOf(n) : current[s] = NoPid }

\* get_io_connection_status_by_device_name for a name that has a connection:
\* the first free one, else the first.
ConnectionStatus(n) ==
    IF FreeConnections(n) # {} THEN Min(FreeConnections(n)) ELSE Min(ConnectionsOf(n))

\* A thread goes on to call process_pending_io.
CallPending(s) == pending' = [pending EXCEPT ![s] = @ + 1]

-----------------------------------------------------------------------------
(* The device program *)

\* create_connection, NEW_IO, and the kernel's thread for it.
Connect(s) ==
    /\ s \notin seen
    /\ seen' = seen \cup {s}
    /\ alive' = alive \cup {s}
    /\ arriving' = arriving \cup {s}
    /\ UNCHANGED <<setup, kernel, procs, pending, completions, closing, inbox>>

\* processing_operation: sleep, IO_COMPLETION, and the kernel's thread for it.
ProcessOperation(s) ==
    /\ s \in alive /\ inbox[s] # <<>>
    /\ inbox' = [inbox EXCEPT ![s] = Tail(@)]
    /\ completions' = completions \cup {<<s, Head(inbox[s])>>}
    /\ UNCHANGED <<setup, kernel, procs, pending, arriving, closing, seen, alive>>

\* The device ends; what it had received is lost.
Die(s) ==
    /\ s \in alive \cap setup.mortal
    /\ EarlyDeath \/ s \notin arriving
    /\ alive' = alive \ {s}
    /\ inbox' = [inbox EXCEPT ![s] = <<>>]
    /\ closing' = closing \cup {s}
    /\ UNCHANGED <<setup, kernel, procs, pending, arriving, completions, seen>>

-----------------------------------------------------------------------------
(* The kernel's handlers *)

\* The connection, the link of a name seen for the first time, and otherwise a
\* look at the requests that an earlier instance left.
process_new_device(s) ==
    /\ s \in arriving
    /\ arriving' = arriving \ {s}
    /\ connections' = connections \cup {s}
    /\ current' = [current EXCEPT ![s] = NoPid]
    /\ links' = links \cup {Device(s)}
    /\ IF Device(s) \in links THEN CallPending(s) ELSE UNCHANGED pending
    /\ UNCHANGED <<setup, queue, procs, completions, closing, devices>>

\* No connection of that name: the process ends.
IoNotFound(p, n) ==
    /\ list[p] = "out" /\ calls < MaxCalls
    /\ ConnectionsOf(n) = {}
    /\ list' = [list EXCEPT ![p] = "EXIT"]
    /\ UNCHANGED <<setup, kernel, calls, threads, devices>>

\* EXEC -> BLOCKED and the request, then process_pending_io for the connection
\* found now.
handle_io_process_syscall(p, n) ==
    /\ list[p] = "out" /\ calls < MaxCalls
    /\ ConnectionsOf(n) # {}
    /\ list' = [list EXCEPT ![p] = "BLOCKED"]
    /\ calls' = calls + 1
    /\ queue' = [queue EXCEPT ![n] = Append(@, p)]
    /\ CallPending(ConnectionStatus(n))
    /\ UNCHANGED <<setup, connections, current, links, arriving, completions, closing, devices>>

\* send_io_operation_package to socket s.  A device that is gone may still be
\* sent to; the package is lost.
Deliver(s, p) ==
    inbox' = IF s \in alive THEN [inbox EXCEPT ![s] = Append(@, p)] ELSE inbox

\* Wrong on purpose: SUSP_BLOCKED is not searched.
TrulyBusy_blocked_only(c) == current[c] # NoPid /\ list[current[c]] = "BLOCKED"

\* The process a connection is marked with is in BLOCKED or SUSP_BLOCKED.
TrulyBusy(c) == current[c] # NoPid /\ Blocked(current[c])

\* Nothing to do: no connection, a busy one, no request.
NothingToSend(n) ==
    ConnectionsOf(n) # {} => TrulyBusy(ConnectionStatus(n)) \/ queue[n] = <<>>

\* Wrong on purpose: the request is not taken out of the queue.
SendRequest_peek(s, n) ==
    /\ Deliver(s, Head(queue[n]))
    /\ current' = [current EXCEPT ![ConnectionStatus(n)] = Head(queue[n])]
    /\ UNCHANGED queue

\* The first request goes to the socket the caller gave; the connection found
\* here is marked with it.
SendRequest(s, n) ==
    LET c == ConnectionStatus(n)
        p == Head(queue[n])
    IN /\ Deliver(s, p)
       /\ queue' = [queue EXCEPT ![n] = Tail(@)]
       /\ current' = [current EXCEPT ![c] = p]

\* process_pending_io with client_socket = s.  A failed send leaves the request
\* in the queue.
process_pending_io(s) ==
    /\ pending[s] > 0
    /\ pending' = [pending EXCEPT ![s] = @ - 1]
    /\ \/ /\ NothingToSend(Device(s)) \/ s \notin alive
          /\ UNCHANGED <<queue, current, inbox>>
       \/ ~NothingToSend(Device(s)) /\ SendRequest(s, Device(s))
    /\ UNCHANGED <<setup, connections, links, procs, arriving, completions, closing, seen, alive>>

\* Wrong on purpose: the connection is reset to 0, which is the pid of the root.
io_completion_zero(s, p) ==
    /\ <<s, p>> \in completions /\ s \in connections
    /\ completions' = completions \ {<<s, p>>}
    /\ list' = IF Blocked(p) THEN [list EXCEPT ![p] = "out"] ELSE list
    /\ current' = [current EXCEPT ![s] = 0]
    /\ CallPending(s)
    /\ UNCHANGED <<setup, connections, links, queue, calls, arriving, closing, devices>>

\* Wrong on purpose: the queue is not looked at when a device comes free.
io_completion_no_pending(s, p) ==
    /\ <<s, p>> \in completions /\ s \in connections
    /\ completions' = completions \ {<<s, p>>}
    /\ list' = IF Blocked(p) THEN [list EXCEPT ![p] = "out"] ELSE list
    /\ current' = [current EXCEPT ![s] = NoPid]
    /\ UNCHANGED <<setup, connections, links, queue, calls, pending, arriving, closing, devices>>

\* Wrong on purpose: the connection keeps its mark.
io_completion_keeps_mark(s, p) ==
    /\ <<s, p>> \in completions /\ s \in connections
    /\ completions' = completions \ {<<s, p>>}
    /\ list' = IF Blocked(p) THEN [list EXCEPT ![p] = "out"] ELSE list
    /\ CallPending(s)
    /\ UNCHANGED <<setup, kernel, calls, arriving, closing, devices>>

\* The thread of one IO_COMPLETION.  A process that is in neither list is only
\* reported.
io_completion(s, p) ==
    /\ <<s, p>> \in completions
    /\ completions' = completions \ {<<s, p>>}
    /\ \/ s \notin connections /\ UNCHANGED <<list, current, pending>>
       \/ /\ s \in connections
          /\ list' = IF Blocked(p) THEN [list EXCEPT ![p] = "out"] ELSE list
          /\ current' = [current EXCEPT ![s] = NoPid]
          /\ CallPending(s)
    /\ UNCHANGED <<setup, connections, links, queue, calls, arriving, closing, devices>>

\* handle_found_process: the process the connection is marked with ends.
EndProcessOf(s) ==
    list' = IF TrulyBusy(s) THEN [list EXCEPT ![current[s]] = "EXIT"] ELSE list

\* recv_package returned NULL.  The queue of the name stays as it is.
io_disconnected(s) ==
    /\ s \in closing
    /\ closing' = closing \ {s}
    /\ \/ s \notin connections /\ UNCHANGED <<list, connections, current>>
       \/ /\ s \in connections
          /\ EndProcessOf(s)
          /\ connections' = connections \ {s}
          /\ current' = [current EXCEPT ![s] = NoPid]
    /\ UNCHANGED <<setup, links, queue, calls, pending, arriving, completions, devices>>

\* run_medium_scheduler moves a process between the two lists of blocked ones.
Suspend(p) ==
    /\ Blocked(p)
    /\ list' = [list EXCEPT ![p] = IF @ = "BLOCKED" THEN "SUSP_BLOCKED" ELSE "BLOCKED"]
    /\ UNCHANGED <<setup, kernel, calls, threads, devices>>

-----------------------------------------------------------------------------
Init ==
    /\ setup \in Setups
    /\ connections = {} /\ links = {}
    /\ current = [s \in Sockets |-> NoPid]
    /\ queue = [n \in Names |-> <<>>]
    /\ list = [p \in Pids |-> "out"] /\ calls = 0
    /\ pending = [s \in Sockets |-> 0]
    /\ arriving = {} /\ completions = {} /\ closing = {}
    /\ seen = {} /\ alive = {}
    /\ inbox = [s \in Sockets |-> <<>>]

Thread(s) ==
    \/ process_new_device(s)
    \/ process_pending_io(s)
    \/ \E p \in Pids : io_completion(s, p)
    \/ io_disconnected(s)

Next ==
    \/ \E s \in Sockets : Connect(s) \/ Die(s) \/ ProcessOperation(s) \/ Thread(s)
    \/ \E p \in Pids, n \in Names : IoNotFound(p, n) \/ handle_io_process_syscall(p, n)
    \/ \E p \in Pids : Suspend(p)

Spec == Init /\ [][Next]_vars

\* Threads of the kernel run, and a device that lives finishes what it serves.
FairSpec ==
    /\ Spec
    /\ \A s \in Sockets :
          /\ WF_vars(process_new_device(s)) /\ WF_vars(process_pending_io(s))
          /\ WF_vars(io_disconnected(s)) /\ WF_vars(ProcessOperation(s))
          /\ \A p \in Pids : WF_vars(io_completion(s, p))

-----------------------------------------------------------------------------
(* Properties *)

TypeOK ==
    /\ setup \in Setups
    /\ connections \subseteq Sockets /\ links \subseteq Names
    /\ current \in [Sockets -> Pids \cup {NoPid}]
    /\ queue \in [Names -> Seq(Pids)]
    /\ list \in [Pids -> {"out", "BLOCKED", "SUSP_BLOCKED", "EXIT"}]
    /\ calls \in 0 .. MaxCalls
    /\ pending \in [Sockets -> Nat]
    /\ arriving \subseteq seen /\ closing \subseteq seen /\ alive \subseteq seen
    /\ seen \subseteq Sockets
    /\ completions \subseteq Sockets \X Pids
    /\ inbox \in [Sockets -> Seq(Pids)]

\* The only instance of its device.
Alone(s) == \A t \in Sockets : Device(t) = Device(s) => t = s

\* Where the request of a process is: in a queue, at a device, or on its way back.
Queued(p) == UNION { { <<n, i>> : i \in { j \in DOMAIN queue[n] : queue[n][j] = p } } : n \in Names }
AtDevice(p) == UNION { { <<s, i>> : i \in { j \in DOMAIN inbox[s] : inbox[s][j] = p } } : s \in Sockets }
Finished(p) == { s \in connections : <<s, p>> \in completions }
Places(p) == Cardinality(Queued(p)) + Cardinality(AtDevice(p)) + Cardinality(Finished(p))

\* The device of the process died, and io_disconnected will end the process.
Orphan(p) == \E s \in closing \cap connections : current[s] = p

\* A blocked process has one request, in one place, and no other process has any:
\* process_pending_io neither loses a request nor sends one twice, whatever the
\* order of the threads that call it.
OneRequest ==
    \A p \in Pids :
        /\ Blocked(p) /\ ~Orphan(p) => Places(p) = 1
        /\ Blocked(p) /\ Orphan(p) => Places(p) <= 1
        /\ ~Blocked(p) => Queued(p) = {} /\ AtDevice(p) = {}

\* The mark of a connection is the process its device serves or has just served,
\* so that io_disconnected ends that process and no other.
MarkOf(s) ==
    s \in connections \ closing =>
        \A p \in Pids : current[s] = p <=> (p \in Range(inbox[s]) \/ <<s, p>> \in completions)
CurrentIsServed == \A s \in Sockets : MarkOf(s)

\* The same for the devices that have one instance.
CurrentIsServedAlone == \A s \in Sockets : Alone(s) => MarkOf(s)

\* While a request waits for a device that is connected, something is still to
\* come that will look at the queue: an IO that ends, or a thread.
RequestRemembered ==
    \A n \in Names :
        queue[n] # <<>> /\ ConnectionsOf(n) # {} =>
            \E s \in Sockets :
                /\ Device(s) = n
                /\ \/ inbox[s] # <<>> \/ pending[s] > 0 \/ s \in arriving \cup closing
                   \/ \E p \in Pids : <<s, p>> \in completions

\* Every IO ends, with its result or with the process, except for the requests
\* queued on a name whose instances are all gone.
Abandoned(p) == \E n \in Names : p \in Range(queue[n]) /\ ConnectionsOf(n) = {}
EveryIoEnds == \A p \in Pids : Blocked(p) ~> (~Blocked(p) \/ Abandoned(p))
=============================================================================

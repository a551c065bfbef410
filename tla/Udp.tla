-------------------------------- MODULE Udp --------------------------------
(***************************************************************************)
(* The ports of udp.c and the tasks that use them, as jnp.c does: bind a   *)
(* port to a buffer, block until a datagram has come, read it, unbind and  *)
(* free the buffer.  Nothing locks udp_port_table: nht_recv_handler        *)
(* forwards a datagram statement by statement while the tasks run.         *)
(***************************************************************************)
EXTENDS Naturals

CONSTANTS
  Tasks,      \* the tasks that use UDP
  Datagrams,  \* the datagrams that come, each with its own sender
  Fixed,      \* the ports that the tasks ask for by number
  Ephemeral,  \* UDP_EPHEMERAL_PORT_BEGIN..UDP_EPHEMERAL_PORT_END
  NoTask,     \* pid 0
  Nothing,    \* no buffer, no datagram
  Junk        \* what memory holds that was freed, or is new

ASSUME PortAssumption == /\ Fixed \subseteq Nat \ {0} /\ Ephemeral \subseteq Nat \ {0}
                         /\ Fixed \cap Ephemeral = {}
ASSUME TaskAssumption == NoTask \notin Tasks /\ Nothing \notin Tasks
ASSUME DatagramAssumption == {Nothing, Junk} \cap Datagrams = {}

VARIABLES
  pid, data, sender, \* udp_port_table: the owner, whose buffer it is, and the
                     \* datagram whose sender the net_addresses are
  buffer,   \* what a task's buffer holds
  held,     \* the tasks whose buffer is allocated
  pc,       \* where every task is
  port,     \* its port, 0 when udp_port_bind has failed
  hpc,      \* where nht_recv_handler is
  datagram, dest, \* what it forwards, and to which port
  coming,   \* the datagrams that have not come yet
  unread,   \* history: the tasks that have not read what was copied for them
  defects   \* history: which of three defects have struck (below)

table   == <<pid, data, sender>>
tasks   == <<pc, port>>
handler == <<hpc, datagram, dest>>
history == <<unread, defects>>
vars    == <<table, buffer, held, tasks, handler, coming, history>>

Ports == Fixed \cup Ephemeral

Init == /\ pid = [p \in Ports |-> NoTask]
        /\ data = [p \in Ports |-> Nothing]
        /\ sender = [p \in Ports |-> Nothing]
        /\ buffer = [t \in Tasks |-> Junk] /\ held = {}
        /\ pc = [t \in Tasks |-> "idle"] /\ port = [t \in Tasks |-> 0]
        /\ hpc = "idle" /\ datagram = Nothing /\ dest = 0
        /\ coming = Datagrams
        /\ unread = {} /\ defects = {}

Goto(t, from, to) == pc[t] = from /\ pc' = [pc EXCEPT ![t] = to]
HGoto(from, to)   == hpc = from /\ hpc' = to

-----------------------------------------------------------------------------
(* udp_port_bind, in three steps: the test, the buffer, the owner.         *)

FreePorts == {p \in Ports : pid[p] = NoTask}

(* A port that another task has.                                           *)
OfferedTaken(asked) ==
  IF asked = 0 THEN {p \in Ephemeral \cap FreePorts :
                       \A q \in Ephemeral \cap FreePorts : p <= q}
               ELSE {asked}

(* 0 asks for the first free ephemeral port.                               *)
Offered(asked) ==
  IF asked = 0 THEN {p \in Ephemeral \cap FreePorts :
                       \A q \in Ephemeral \cap FreePorts : p <= q}
               ELSE {asked} \cap FreePorts

(* Two tasks that have both found the same port free.                      *)
Binding(t) == pc[t] \in {"set_data", "set_pid"}
Raced(t, p) == \E u \in Tasks \ {t} : Binding(u) /\ port[u] = p

(* The buffer is allocated; a task that gets no port goes on without one.  *)
Bind(t, asked) ==
  /\ held' = held \cup {t}
  /\ buffer' = [buffer EXCEPT ![t] = Junk]
  /\ \/ /\ Offered(asked) = {} /\ Goto(t, "idle", "bound")
        /\ port' = [port EXCEPT ![t] = 0]
        /\ UNCHANGED defects
     \/ \E p \in Offered(asked) :
          /\ Goto(t, "idle", "set_data")
          /\ port' = [port EXCEPT ![t] = p]
          /\ defects' = IF Raced(t, p) THEN defects \cup {"two binds"} ELSE defects
  /\ UNCHANGED <<table, handler, coming, unread>>

SetData(t) == /\ Goto(t, "set_data", "set_pid")
              /\ data' = [data EXCEPT ![port[t]] = t]
              /\ UNCHANGED <<pid, sender, buffer, held, port, handler, coming, history>>

SetPid(t) == /\ Goto(t, "set_pid", "bound")
             /\ pid' = [pid EXCEPT ![port[t]] = t]
             /\ UNCHANGED <<data, sender, buffer, held, port, handler, coming, history>>

(* udp_receive.                                                            *)
Receive(t) == /\ Goto(t, "bound", "blocked")
              /\ UNCHANGED <<table, buffer, held, port, handler, coming, history>>

(* The task uses what is in its buffer, and either waits for more or is    *)
(* done with the port.                                                     *)
Read(t) == /\ Goto(t, "woken", "bound") \/ Goto(t, "woken", "unbind")
           /\ unread' = unread \ {t}
           /\ UNCHANGED <<table, buffer, held, port, handler, coming, defects>>

(* udp_port_unbind: only the owner may.                                    *)
Owner(p) == IF p \in Ports THEN pid[p] ELSE NoTask

(* The handler may be inside for this port.                                *)
Unbind(t) ==
  /\ Goto(t, "unbind", "kfree")
  /\ pid' = [p \in Ports |-> IF p = port[t] /\ pid[p] = t THEN NoTask ELSE pid[p]]
  /\ defects' = IF hpc # "idle" /\ dest = port[t] /\ Owner(port[t]) = t
                THEN defects \cup {"unbound"} ELSE defects
  /\ UNCHANGED <<data, sender, buffer, held, port, handler, coming, unread>>

KFree(t) ==
  /\ Goto(t, "kfree", "idle")
  /\ held' = held \ {t}
  /\ buffer' = [buffer EXCEPT ![t] = Junk]
  /\ port' = [port EXCEPT ![t] = 0]
  /\ unread' = unread \ {t}
  /\ UNCHANGED <<table, handler, coming, defects>>

-----------------------------------------------------------------------------
(* udp_forward_segment_to_process, in nht_recv_handler.                    *)

(* A port whose owner is not looked at.                                    *)
RecvAnySegment(d, p) ==
  /\ d \in coming /\ coming' = coming \ {d}
  /\ HGoto("idle", "memcpy") /\ datagram' = d /\ dest' = p
  /\ UNCHANGED <<table, buffer, held, tasks, history>>

(* A datagram for a port without an owner is dropped.                      *)
RecvSegment(d, p) ==
  /\ d \in coming /\ coming' = coming \ {d}
  /\ IF pid[p] = NoTask THEN hpc = "idle" /\ UNCHANGED handler
     ELSE HGoto("idle", "memcpy") /\ datagram' = d /\ dest' = p
  /\ UNCHANGED <<table, buffer, held, tasks, history>>

(* A datagram that comes before the one in front of it has been read, or   *)
(* before its reader waits.                                                *)
Reader == data[dest]
Copy ==
  /\ HGoto("memcpy", "address")
  /\ buffer' = [t \in Tasks |-> IF t = Reader THEN datagram ELSE buffer[t]]
  /\ unread' = unread \cup {Reader}
  /\ defects' = IF pc[Reader] # "blocked" THEN defects \cup {"early"} ELSE defects
  /\ UNCHANGED <<table, held, tasks, datagram, dest, coming>>

(* The sender's address is not stored.                                     *)
AddressForgotten ==
  /\ HGoto("address", "wake")
  /\ UNCHANGED <<table, buffer, held, tasks, datagram, dest, coming, history>>

Address == /\ HGoto("address", "wake")
           /\ sender' = [sender EXCEPT ![dest] = datagram]
           /\ UNCHANGED <<pid, data, buffer, held, tasks, datagram, dest, coming,
                          history>>

(* Without soft_unblock_task.                                              *)
WakeNobody == /\ HGoto("wake", "idle")
              /\ datagram' = Nothing /\ dest' = 0
              /\ UNCHANGED <<table, buffer, held, tasks, coming, history>>

(* soft_unblock_task(pid): the pid is read again.  With pid 0 search_task  *)
(* finds nobody, and the state that is set is at address 0 and on.         *)
Wake ==
  /\ HGoto("wake", "idle")
  /\ pc' = [t \in Tasks |-> IF t = pid[dest] /\ pc[t] = "blocked" THEN "woken"
                            ELSE pc[t]]
  /\ datagram' = Nothing /\ dest' = 0
  /\ UNCHANGED <<table, buffer, held, port, coming, history>>

-----------------------------------------------------------------------------
Task(t) == \/ \E asked \in {0} \cup Fixed : Bind(t, asked)
           \/ SetData(t) \/ SetPid(t) \/ Receive(t) \/ Read(t) \/ Unbind(t)
           \/ KFree(t)

Handler == \/ \E d \in coming, p \in Ports : RecvSegment(d, p)
           \/ Copy \/ Address \/ Wake

(* Everybody waits and nothing comes any more.                             *)
Quiet == /\ coming = {} /\ hpc = "idle" /\ \A t \in Tasks : pc[t] = "blocked"
         /\ UNCHANGED vars

Next == (\E t \in Tasks : Task(t)) \/ Handler \/ Quiet

Spec == Init /\ [][Next]_vars

-----------------------------------------------------------------------------
(* Types.                                                                  *)
TypeOK ==
  /\ pid \in [Ports -> Tasks \cup {NoTask}]
  /\ data \in [Ports -> Tasks \cup {Nothing}]
  /\ sender \in [Ports -> Datagrams \cup {Nothing}]
  /\ buffer \in [Tasks -> Datagrams \cup {Junk}]
  /\ held \subseteq Tasks
  /\ pc \in [Tasks -> {"idle", "set_data", "set_pid", "bound", "blocked", "woken",
                       "unbind", "kfree"}]
  /\ port \in [Tasks -> Ports \cup {0}]
  /\ hpc \in {"idle", "memcpy", "address", "wake"}
  /\ datagram \in Datagrams \cup {Nothing} /\ dest \in Ports \cup {0}
  /\ coming \subseteq Datagrams /\ unread \subseteq Tasks
  /\ defects \subseteq {"two binds", "early", "unbound"}

(* A port's buffer is its owner's, and it is allocated as long as the port *)
(* has an owner, unless two tasks have bound one port at once.             *)
PortHasItsBuffer ==
  /\ TypeOK
  /\ \/ "two binds" \in defects
     \/ \A p \in Ports : pid[p] # NoTask => data[p] = pid[p] /\ data[p] \in held

(* udp_forward_segment_to_process writes to no buffer that was given back, *)
(* and wakes no task number 0, unless the port is unbound while it is      *)
(* inside, or was bound twice.                                             *)
ForwardsToOwner ==
  defects \cap {"unbound", "two binds"} # {} \/
    /\ hpc = "memcpy" => data[dest] \in held
    /\ hpc # "idle" => pid[dest] # NoTask

(* What a task reads is one datagram with the address of its sender, and   *)
(* its port's, unless a datagram came before the task had read the one in  *)
(* front of it or waited for it, or the port changed hands.                *)
ReadsOneDatagram ==
  [][\A t \in Tasks :
       pc[t] = "woken" /\ pc'[t] # "woken" /\ defects = {} =>
         buffer[t] \in Datagrams /\ sender[port[t]] = buffer[t]]_vars

(* A task sleeps beside a datagram it has not read only while the handler  *)
(* is on its way to wake it, unless the datagram came early: then          *)
(* soft_unblock_task has found nobody asleep, and the task sleeps on.      *)
NoLostWakeUp ==
  defects = {} =>
    \A t \in Tasks : pc[t] = "blocked" /\ t \in unread =>
                       hpc \in {"address", "wake"} /\ data[dest] = t
=============================================================================

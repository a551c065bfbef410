--------------------------- MODULE NetworkProofs ----------------------------
(***************************************************************************)
(* Proofs about Udp and about Layers, below it.                            *)
(*                                                                         *)
(* Udp, for any tasks, datagrams and ports: a port's buffer is its owner's *)
(* and is allocated, the handler writes to and wakes the port's owner, no  *)
(* wake-up is lost, and a task reads one datagram with the address of its  *)
(* sender - each until the defect that the property names.                 *)
(*                                                                         *)
(* Layers, for any size of byte and table, any hosts and data: the ARP     *)
(* table is up to date, whatever is sent passes its receiver's checksums,  *)
(* and who asks is answered.  Sums and data are taken apart by induction   *)
(* over positions, from the order of the naturals.                         *)
(***************************************************************************)
EXTENDS Udp, Layers, FiniteSetTheorems, SequenceTheorems, WellFoundedInduction, TLAPS

-----------------------------------------------------------------------------
(* Ports and their tasks.                                                  *)

(* Where a task may own a port, and where a task has a buffer.             *)
Owning == {"bound", "blocked", "woken", "unbind"}

(* A port and its owner know each other.                                   *)
OwnersOK ==
  \A p \in Ports : pid[p] # NoTask =>
    /\ data[p] = pid[p] /\ pid[p] \in held
    /\ port[pid[p]] = p /\ pc[pid[p]] \in Owning

(* A task that binds a port is alone there, and its buffer comes first.    *)
BindersOK ==
  \A t \in Tasks : Binding(t) =>
    /\ port[t] \in Ports /\ pid[port[t]] = NoTask /\ t \in held
    /\ pc[t] = "set_pid" => data[port[t]] = t
    /\ \A u \in Tasks \ {t} : Binding(u) => port[u] # port[t]

TableOK == "two binds" \notin defects => OwnersOK /\ BindersOK

(* The port that the handler works on has an owner until it is unbound.    *)
HandlerOK ==
  /\ hpc # "idle" => dest \in Ports /\ datagram \in Datagrams
  /\ hpc # "idle" /\ defects \cap {"unbound", "two binds"} = {} =>
       pid[dest] # NoTask

(* Whoever has bound a port since boot, it has had a buffer since.         *)
BuffersKnown ==
  /\ \A p \in Ports : pid[p] # NoTask => data[p] \in Tasks
  /\ \A t \in Tasks : Binding(t) =>
       port[t] \in Ports /\ (pc[t] = "set_pid" => data[port[t]] \in Tasks)
  /\ hpc # "idle" => dest \in Ports /\ data[dest] \in Tasks

(* What was copied for a task is there until the task has read it.  From   *)
(* the copy to the wake-up the reader sleeps.                              *)
UnreadOK == \A t \in unread : pc[t] \in {"blocked", "woken"}

ReaderSleeps ==
  hpc \in {"address", "wake"} =>
    /\ Reader \in Tasks /\ pc[Reader] = "blocked" /\ buffer[Reader] = datagram
    /\ hpc = "wake" => sender[dest] = datagram

WokenHasDatagram ==
  \A t \in Tasks : pc[t] = "woken" =>
    /\ buffer[t] \in Datagrams
    /\ port[t] \in Ports /\ pid[port[t]] = t /\ sender[port[t]] = buffer[t]

DatagramsOK == defects = {} => UnreadOK /\ ReaderSleeps /\ WokenHasDatagram

Inv == TypeOK /\ BuffersKnown /\ TableOK /\ HandlerOK /\ NoLostWakeUp /\ DatagramsOK

-----------------------------------------------------------------------------
LEMMA PortFacts == Ports \subseteq Nat \ {0} /\ 0 \notin Ports
BY PortAssumption DEF Ports

LEMMA InitInv == Init => Inv
BY PortFacts, TaskAssumption DEF Init, Inv, TypeOK, BuffersKnown, TableOK, OwnersOK,
  BindersOK, Binding, HandlerOK, NoLostWakeUp, DatagramsOK, UnreadOK,
  ReaderSleeps, WokenHasDatagram

LEMMA BindKeeps ==
  ASSUME Inv, NEW t \in Tasks, NEW wanted \in {0} \cup Fixed, Bind(t, wanted)
  PROVE  Inv'
<1> USE DEF Inv, table, handler
<1>1. \A p \in Offered(wanted) : p \in Ports /\ pid[p] = NoTask
  BY DEF Offered, FreePorts
<1>2. /\ pc[t] = "idle" /\ held' = held \cup {t}
      /\ buffer' = [buffer EXCEPT ![t] = Junk]
      /\ UNCHANGED <<pid, data, sender, hpc, datagram, dest, coming, unread>>
      /\ \/ /\ pc' = [pc EXCEPT ![t] = "bound"]
            /\ port' = [port EXCEPT ![t] = 0]
            /\ defects' = defects
         \/ \E p \in Ports : /\ pid[p] = NoTask
              /\ pc' = [pc EXCEPT ![t] = "set_data"]
              /\ port' = [port EXCEPT ![t] = p]
              /\ defects' = IF Raced(t, p) THEN defects \cup {"two binds"}
                            ELSE defects
  BY <1>1 DEF Bind, Goto
<1>3. TypeOK'
  <2>1. pc' \in [Tasks -> {"idle", "set_data", "set_pid", "bound", "blocked", "woken",
                          "unbind", "kfree"}]
    BY <1>2 DEF TypeOK
  <2>2. port \in [Tasks -> Ports \cup {0}]
    BY DEF TypeOK
  <2>3. \/ port' = [port EXCEPT ![t] = 0]
        \/ \E p \in Ports : port' = [port EXCEPT ![t] = p]
    BY <1>2
  <2>4. port' \in [Tasks -> Ports \cup {0}]
    BY <2>2, <2>3
  <2>5. defects' \in {defects, defects \cup {"two binds"}}
    BY <1>2
  <2>6. defects' \subseteq {"two binds", "early", "unbound"}
    BY <2>5 DEF TypeOK
  <2> QED BY <1>2, <2>1, <2>4, <2>6 DEF TypeOK
<1>4. TableOK'
  <2> SUFFICES ASSUME "two binds" \notin defects' PROVE OwnersOK' /\ BindersOK'
    BY DEF TableOK
  <2>1. OwnersOK /\ BindersOK
    BY <1>2 DEF TableOK
  <2>2. OwnersOK'
    <3> SUFFICES ASSUME NEW p \in Ports, pid[p] # NoTask
                 PROVE  /\ data[p] = pid[p] /\ pid[p] \in held'
                        /\ port'[pid[p]] = p /\ pc'[pid[p]] \in Owning
      BY <1>2 DEF OwnersOK
    <3>1. pid[p] \in Tasks /\ pid[p] # t
      BY <1>2, <2>1 DEF OwnersOK, Owning, TypeOK
    <3>2. port'[pid[p]] = port[pid[p]] /\ pc'[pid[p]] = pc[pid[p]]
      BY <1>2, <3>1 DEF TypeOK
    <3> QED BY <1>2, <2>1, <3>2 DEF OwnersOK
  <2>3. BindersOK'
    <3>1. CASE pc' = [pc EXCEPT ![t] = "bound"] /\ port' = [port EXCEPT ![t] = 0]
      BY <1>2, <2>1, <3>1 DEF BindersOK, Binding, TypeOK
    <3>2. ASSUME NEW p \in Ports, pid[p] = NoTask, ~Raced(t, p),
                 pc' = [pc EXCEPT ![t] = "set_data"], port' = [port EXCEPT ![t] = p]
          PROVE  BindersOK'
      BY <1>2, <2>1, <3>2 DEF BindersOK, Binding, Raced, TypeOK
    <3> QED BY <1>2, <3>1, <3>2
  <2> QED BY <2>2, <2>3
<1>5. HandlerOK'
  BY <1>2 DEF HandlerOK
<1>6. NoLostWakeUp'
  BY <1>2 DEF NoLostWakeUp, TypeOK
<1>7. DatagramsOK'
  <2> SUFFICES ASSUME defects' = {} PROVE (UnreadOK /\ ReaderSleeps /\ WokenHasDatagram)'
    BY DEF DatagramsOK
  <2>1. defects = {} /\ UnreadOK /\ ReaderSleeps /\ WokenHasDatagram
    BY <1>2 DEF DatagramsOK
  <2>2. UnreadOK'
    BY <1>2, <2>1 DEF UnreadOK, TypeOK
  <2>3. ReaderSleeps'
    BY <1>2, <2>1 DEF ReaderSleeps, Reader, TypeOK
  <2>4. WokenHasDatagram'
    <3> SUFFICES ASSUME NEW u \in Tasks, pc'[u] = "woken"
                 PROVE  /\ buffer'[u] \in Datagrams
                        /\ port'[u] \in Ports /\ pid[port'[u]] = u
                        /\ sender[port'[u]] = buffer'[u]
      BY <1>2 DEF WokenHasDatagram
    <3>1. u # t
      BY <1>2 DEF TypeOK
    <3>2. pc'[u] = pc[u] /\ port'[u] = port[u] /\ buffer'[u] = buffer[u]
      BY <1>2, <3>1 DEF TypeOK
    <3> QED BY <2>1, <3>2 DEF WokenHasDatagram
  <2> QED BY <2>2, <2>3, <2>4
<1>8. BuffersKnown'
  <2> SUFFICES ASSUME NEW u \in Tasks, Binding(u)'
               PROVE  /\ port'[u] \in Ports
                      /\ pc'[u] = "set_pid" => data[port'[u]] \in Tasks
    BY <1>2 DEF BuffersKnown
  <2>1. CASE u = t
    BY <1>2, <2>1 DEF Binding, TypeOK
  <2>2. CASE u # t
    <3>1. pc'[u] = pc[u] /\ port'[u] = port[u]
      BY <1>2, <2>2 DEF TypeOK
    <3> QED BY <3>1 DEF BuffersKnown, Binding
  <2> QED BY <2>1, <2>2
<1> QED BY <1>3, <1>4, <1>5, <1>6, <1>7, <1>8

(* A task that binds, binds a port that no one owns and the handler is not *)
(* at.                                                                     *)
LEMMA BinderAlone ==
  ASSUME Inv, NEW t \in Tasks, Binding(t), "two binds" \notin defects
  PROVE  /\ port[t] \in Ports /\ pid[port[t]] = NoTask
         /\ "unbound" \notin defects /\ hpc # "idle" => dest # port[t]
BY DEF Inv, TableOK, BindersOK, HandlerOK

LEMMA SetDataKeeps ==
  ASSUME Inv, NEW t \in Tasks, SetData(t)
  PROVE  Inv'
<1> USE DEF Inv, handler, history
<1>1. /\ pc[t] = "set_data" /\ pc' = [pc EXCEPT ![t] = "set_pid"]
      /\ data' = [data EXCEPT ![port[t]] = t]
      /\ UNCHANGED <<pid, sender, buffer, held, port, hpc, datagram, dest,
                     coming, unread, defects>>
  BY DEF SetData, Goto
<1>2. TypeOK'
  BY <1>1 DEF TypeOK
<1>3. \A p \in Ports : p # port[t] => data'[p] = data[p]
  BY <1>1 DEF TypeOK
<1>4. TableOK'
  <2> SUFFICES ASSUME "two binds" \notin defects PROVE OwnersOK' /\ BindersOK'
    BY <1>1 DEF TableOK
  <2>1. OwnersOK /\ BindersOK /\ Binding(t)
    BY <1>1 DEF TableOK, Binding
  <2>2. OwnersOK'
    <3> SUFFICES ASSUME NEW p \in Ports, pid[p] # NoTask
                 PROVE  data'[p] = pid[p] /\ pc'[pid[p]] \in Owning
      BY <1>1, <2>1 DEF OwnersOK
    <3>1. p # port[t] /\ pid[p] # t /\ pid[p] \in Tasks
      BY <1>1, <2>1, BinderAlone DEF OwnersOK, Owning, TypeOK
    <3> QED BY <1>1, <1>3, <2>1, <3>1 DEF OwnersOK, TypeOK
  <2>3. BindersOK'
    <3>1. data'[port[t]] = t
      BY <1>1, <2>1, BinderAlone DEF TypeOK
    <3>2. \A u \in Tasks : Binding(u)' <=> Binding(u)
      BY <1>1 DEF Binding, TypeOK
    <3> SUFFICES ASSUME NEW u \in Tasks, Binding(u)
                 PROVE  /\ port[u] \in Ports /\ pid[port[u]] = NoTask /\ u \in held
                        /\ pc'[u] = "set_pid" => data'[port[u]] = u
                        /\ \A v \in Tasks \ {u} : Binding(v) => port[v] # port[u]
      BY <1>1, <3>2 DEF BindersOK
    <3>3. pc'[u] = "set_pid" => data'[port[u]] = u
      <4>1. CASE u = t
        BY <3>1, <4>1
      <4>2. CASE u # t
        <5>1. pc'[u] = pc[u] /\ port[u] \in Ports /\ port[u] # port[t]
          BY <1>1, <2>1, <4>2 DEF BindersOK, TypeOK
        <5> QED BY <1>3, <2>1, <5>1 DEF BindersOK
      <4> QED BY <4>1, <4>2
    <3> QED BY <2>1, <3>3 DEF BindersOK
  <2> QED BY <2>2, <2>3
<1>5. HandlerOK'
  BY <1>1 DEF HandlerOK
<1>6. defects = {} /\ hpc # "idle" => data'[dest] = data[dest]
  BY <1>1, <1>3, BinderAlone DEF HandlerOK, Binding
<1>7. NoLostWakeUp'
  BY <1>1, <1>6 DEF NoLostWakeUp, TypeOK
<1>8. DatagramsOK'
  <2> SUFFICES ASSUME defects = {}
               PROVE  (UnreadOK /\ ReaderSleeps /\ WokenHasDatagram)'
    BY <1>1 DEF DatagramsOK
  <2>1. UnreadOK /\ ReaderSleeps /\ WokenHasDatagram
    BY DEF DatagramsOK
  <2>2. UnreadOK'
    BY <1>1, <2>1 DEF UnreadOK, TypeOK
  <2>3. ReaderSleeps'
    BY <1>1, <1>6, <2>1 DEF ReaderSleeps, Reader, TypeOK
  <2>4. WokenHasDatagram'
    BY <1>1, <2>1 DEF WokenHasDatagram, TypeOK
  <2> QED BY <2>2, <2>3, <2>4
<1>9. BuffersKnown'
  <2>1. \A p \in Ports : data'[p] = data[p] \/ data'[p] = t
    BY <1>1, <1>3 DEF TypeOK
  <2>2. port[t] \in Ports /\ data'[port[t]] = t
    BY <1>1 DEF BuffersKnown, Binding, TypeOK
  <2>3. \A u \in Tasks : Binding(u)' =>
          /\ Binding(u)
          /\ pc'[u] = "set_pid" => pc[u] = "set_pid" \/ u = t
    BY <1>1 DEF Binding, TypeOK
  <2> QED BY <1>1, <2>1, <2>2, <2>3 DEF BuffersKnown
<1> QED BY <1>2, <1>4, <1>5, <1>7, <1>8, <1>9

LEMMA SetPidKeeps ==
  ASSUME Inv, NEW t \in Tasks, SetPid(t)
  PROVE  Inv'
<1> USE DEF Inv, handler, history
<1>1. /\ pc[t] = "set_pid" /\ pc' = [pc EXCEPT ![t] = "bound"]
      /\ pid' = [pid EXCEPT ![port[t]] = t]
      /\ UNCHANGED <<data, sender, buffer, held, port, hpc, datagram, dest,
                     coming, unread, defects>>
  BY DEF SetPid, Goto
<1>2. TypeOK'
  BY <1>1 DEF TypeOK
<1>3. \A p \in Ports : p # port[t] => pid'[p] = pid[p]
  BY <1>1 DEF TypeOK
<1>4. TableOK'
  <2> SUFFICES ASSUME "two binds" \notin defects PROVE OwnersOK' /\ BindersOK'
    BY <1>1 DEF TableOK
  <2>1. OwnersOK /\ BindersOK /\ Binding(t)
    BY <1>1 DEF TableOK, Binding
  <2>2. pid'[port[t]] = t
    BY <1>1, <2>1, BinderAlone DEF TypeOK
  <2>3. OwnersOK'
    <3> SUFFICES ASSUME NEW p \in Ports, pid'[p] # NoTask
                 PROVE  /\ data[p] = pid'[p] /\ pid'[p] \in held
                        /\ port[pid'[p]] = p /\ pc'[pid'[p]] \in Owning
      BY <1>1 DEF OwnersOK
    <3>1. CASE p = port[t]
      BY <1>1, <2>1, <2>2, <3>1 DEF BindersOK, Owning, TypeOK
    <3>2. CASE p # port[t]
      <4>1. pid'[p] = pid[p] /\ pid[p] \in Tasks
        BY <1>3, <3>2 DEF TypeOK
      <4>2. pc'[pid[p]] \in Owning
        <5>1. pc[pid[p]] \in Owning
          BY <2>1, <4>1 DEF OwnersOK
        <5> QED BY <1>1, <4>1, <5>1 DEF Owning, TypeOK
      <4> QED BY <2>1, <4>1, <4>2 DEF OwnersOK
    <3> QED BY <3>1, <3>2
  <2>4. BindersOK'
    <3> SUFFICES ASSUME NEW u \in Tasks, Binding(u)'
                 PROVE  /\ port[u] \in Ports /\ pid'[port[u]] = NoTask /\ u \in held
                        /\ pc'[u] = "set_pid" => data[port[u]] = u
                        /\ \A v \in Tasks \ {u} : Binding(v)' => port[v] # port[u]
      BY <1>1 DEF BindersOK
    <3>1. u # t /\ \A v \in Tasks : Binding(v)' => Binding(v)
      BY <1>1 DEF Binding, TypeOK
    <3>2. pc'[u] = pc[u] /\ port[u] # port[t]
      BY <1>1, <2>1, <3>1 DEF BindersOK, TypeOK
    <3> QED BY <1>3, <2>1, <3>1, <3>2 DEF BindersOK
  <2> QED BY <2>3, <2>4
<1>5. HandlerOK'
  BY <1>1, TaskAssumption DEF HandlerOK, TypeOK
<1>6. NoLostWakeUp'
  BY <1>1 DEF NoLostWakeUp, TypeOK
<1>7. DatagramsOK'
  <2> SUFFICES ASSUME defects = {}
               PROVE  (UnreadOK /\ ReaderSleeps /\ WokenHasDatagram)'
    BY <1>1 DEF DatagramsOK
  <2>1. UnreadOK /\ ReaderSleeps /\ WokenHasDatagram
    BY DEF DatagramsOK
  <2>2. UnreadOK'
    BY <1>1, <2>1 DEF UnreadOK, TypeOK
  <2>3. ReaderSleeps'
    BY <1>1, <2>1 DEF ReaderSleeps, Reader, TypeOK
  <2>4. WokenHasDatagram'
    <3> SUFFICES ASSUME NEW u \in Tasks, pc'[u] = "woken"
                 PROVE  /\ buffer[u] \in Datagrams
                        /\ port[u] \in Ports /\ pid'[port[u]] = u
                        /\ sender[port[u]] = buffer[u]
      BY <1>1 DEF WokenHasDatagram
    <3>1. u # t /\ pc[u] = "woken"
      BY <1>1 DEF TypeOK
    <3>2. port[u] # port[t]
      BY <1>1, <2>1, <3>1, BinderAlone, TaskAssumption DEF WokenHasDatagram, Binding
    <3> QED BY <1>3, <2>1, <3>1, <3>2 DEF WokenHasDatagram
  <2> QED BY <2>2, <2>3, <2>4
<1>8. BuffersKnown'
  BY <1>1, <1>3 DEF BuffersKnown, Binding, TypeOK
<1> QED BY <1>2, <1>4, <1>5, <1>6, <1>7, <1>8

LEMMA ReceiveKeeps ==
  ASSUME Inv, NEW t \in Tasks, Receive(t)
  PROVE  Inv'
<1> USE DEF Inv, table, handler, history
<1>1. /\ pc[t] = "bound" /\ pc' = [pc EXCEPT ![t] = "blocked"]
      /\ UNCHANGED <<pid, data, sender, buffer, held, port, hpc, datagram, dest,
                     coming, unread, defects>>
  BY DEF Receive, Goto
<1>2. TypeOK'
  BY <1>1 DEF TypeOK
<1>3. \A u \in Tasks : /\ Binding(u)' <=> Binding(u)
                       /\ pc'[u] = "set_pid" <=> pc[u] = "set_pid"
                       /\ pc'[u] = "woken" <=> pc[u] = "woken"
                       /\ pc[u] \in Owning => pc'[u] \in Owning
                       /\ pc[u] = "blocked" => pc'[u] = "blocked"
  BY <1>1 DEF Binding, Owning, TypeOK
<1>4. TableOK'
  <2>1. OwnersOK => OwnersOK'
    BY <1>1, <1>3 DEF OwnersOK, TypeOK
  <2>2. BindersOK => BindersOK'
    BY <1>1, <1>3 DEF BindersOK
  <2> QED BY <1>1, <2>1, <2>2 DEF TableOK
<1>5. HandlerOK'
  BY <1>1 DEF HandlerOK
<1>6. NoLostWakeUp'
  BY <1>1 DEF NoLostWakeUp, DatagramsOK, UnreadOK, TypeOK
<1>7. DatagramsOK'
  BY <1>1, <1>3 DEF DatagramsOK, UnreadOK, ReaderSleeps, Reader,
    WokenHasDatagram, TypeOK
<1>8. BuffersKnown'
  BY <1>1, <1>3 DEF BuffersKnown, Binding, TypeOK
<1> QED BY <1>2, <1>4, <1>5, <1>6, <1>7, <1>8

LEMMA ReadKeeps ==
  ASSUME Inv, NEW t \in Tasks, Read(t)
  PROVE  Inv'
<1> USE DEF Inv, table, handler, history
<1>1. /\ pc[t] = "woken" /\ unread' = unread \ {t}
      /\ \/ pc' = [pc EXCEPT ![t] = "bound"]
         \/ pc' = [pc EXCEPT ![t] = "unbind"]
      /\ UNCHANGED <<pid, data, sender, buffer, held, port, hpc, datagram, dest,
                     coming, defects>>
  BY DEF Read, Goto
<1>2. TypeOK'
  BY <1>1 DEF TypeOK
<1>3. \A u \in Tasks : /\ Binding(u)' <=> Binding(u)
                       /\ pc'[u] = "set_pid" <=> pc[u] = "set_pid"
                       /\ pc'[u] = "woken" => pc[u] = "woken"
                       /\ pc[u] \in Owning => pc'[u] \in Owning
                       /\ pc'[u] = "blocked" <=> pc[u] = "blocked"
                       /\ u # t => pc'[u] = pc[u]
  BY <1>1 DEF Binding, Owning, TypeOK
<1>4. TableOK'
  <2>1. OwnersOK => OwnersOK'
    BY <1>1, <1>3 DEF OwnersOK, TypeOK
  <2>2. BindersOK => BindersOK'
    BY <1>1, <1>3 DEF BindersOK
  <2> QED BY <1>1, <2>1, <2>2 DEF TableOK
<1>5. HandlerOK'
  BY <1>1 DEF HandlerOK
<1>6. NoLostWakeUp'
  BY <1>1, <1>3 DEF NoLostWakeUp
<1>7. DatagramsOK'
  BY <1>1, <1>3 DEF DatagramsOK, UnreadOK, ReaderSleeps, Reader,
    WokenHasDatagram, TypeOK
<1>8. BuffersKnown'
  BY <1>1, <1>3 DEF BuffersKnown, Binding, TypeOK
<1> QED BY <1>2, <1>4, <1>5, <1>6, <1>7, <1>8

LEMMA UnbindKeeps ==
  ASSUME Inv, NEW t \in Tasks, Unbind(t)
  PROVE  Inv'
<1> USE DEF Inv, handler
<1>1. /\ pc[t] = "unbind" /\ pc' = [pc EXCEPT ![t] = "kfree"]
      /\ pid' = [p \in Ports |-> IF p = port[t] /\ pid[p] = t THEN NoTask
                                 ELSE pid[p]]
      /\ defects' = IF hpc # "idle" /\ dest = port[t] /\ Owner(port[t]) = t
                    THEN defects \cup {"unbound"} ELSE defects
      /\ UNCHANGED <<data, sender, buffer, held, port, hpc, datagram, dest,
                     coming, unread>>
  BY DEF Unbind, Goto
<1>2. TypeOK'
  BY <1>1 DEF TypeOK
<1>3. \A u \in Tasks : /\ Binding(u)' <=> Binding(u)
                       /\ u # t => pc'[u] = pc[u]
                       /\ pc'[u] = "set_pid" <=> pc[u] = "set_pid"
                       /\ pc'[u] = "blocked" <=> pc[u] = "blocked"
                       /\ pc'[u] = "woken" <=> pc[u] = "woken"
  BY <1>1 DEF Binding, TypeOK
<1>4. TableOK'
  <2> SUFFICES ASSUME "two binds" \notin defects' PROVE OwnersOK' /\ BindersOK'
    BY DEF TableOK
  <2>1. OwnersOK /\ BindersOK
    BY <1>1 DEF TableOK
  <2>2. OwnersOK'
    <3> SUFFICES ASSUME NEW p \in Ports, pid'[p] # NoTask
                 PROVE  /\ data[p] = pid'[p] /\ pid'[p] \in held
                        /\ port[pid'[p]] = p /\ pc'[pid'[p]] \in Owning
      BY <1>1 DEF OwnersOK
    <3>1. pid'[p] = pid[p] /\ pid[p] \in Tasks /\ ~(p = port[t] /\ pid[p] = t)
      BY <1>1 DEF TypeOK
    <3>2. pid[p] # t
      BY <2>1, <3>1 DEF OwnersOK
    <3>3. pc'[pid[p]] = pc[pid[p]]
      BY <1>3, <3>1, <3>2
    <3> QED BY <2>1, <3>1, <3>3 DEF OwnersOK
  <2>3. BindersOK'
    BY <1>1, <1>3, <2>1 DEF BindersOK
  <2> QED BY <2>2, <2>3
<1>5. HandlerOK'
  BY <1>1 DEF HandlerOK, Owner
<1>6. NoLostWakeUp'
  BY <1>1, <1>3 DEF NoLostWakeUp
<1>7. DatagramsOK'
  <2> SUFFICES ASSUME defects' = {}
               PROVE  (UnreadOK /\ ReaderSleeps /\ WokenHasDatagram)'
    BY DEF DatagramsOK
  <2>1. UnreadOK /\ ReaderSleeps /\ WokenHasDatagram
    BY <1>1 DEF DatagramsOK
  <2>2. UnreadOK'
    BY <1>1, <1>3, <2>1 DEF UnreadOK, TypeOK
  <2>3. ReaderSleeps'
    BY <1>1, <1>3, <2>1 DEF ReaderSleeps, Reader
  <2>4. WokenHasDatagram'
    BY <1>1, <1>3, <2>1 DEF WokenHasDatagram
  <2> QED BY <2>2, <2>3, <2>4
<1>8. BuffersKnown'
  BY <1>1, <1>3 DEF BuffersKnown
<1> QED BY <1>2, <1>4, <1>5, <1>6, <1>7, <1>8

LEMMA KFreeKeeps ==
  ASSUME Inv, NEW t \in Tasks, KFree(t)
  PROVE  Inv'
<1> USE DEF Inv, table, handler
<1>1. /\ pc[t] = "kfree" /\ pc' = [pc EXCEPT ![t] = "idle"]
      /\ held' = held \ {t} /\ buffer' = [buffer EXCEPT ![t] = Junk]
      /\ port' = [port EXCEPT ![t] = 0] /\ unread' = unread \ {t}
      /\ UNCHANGED <<pid, data, sender, hpc, datagram, dest, coming, defects>>
  BY DEF KFree, Goto
<1>2. TypeOK'
  BY <1>1 DEF TypeOK
<1>3. \A u \in Tasks : /\ Binding(u)' <=> Binding(u)
                       /\ pc'[u] \in Owning \cup {"set_pid", "set_data"} => u # t
                       /\ u # t => /\ pc'[u] = pc[u] /\ port'[u] = port[u]
                                   /\ buffer'[u] = buffer[u]
  BY <1>1 DEF Binding, Owning, TypeOK
<1>4. TableOK'
  <2> SUFFICES ASSUME "two binds" \notin defects PROVE OwnersOK' /\ BindersOK'
    BY <1>1 DEF TableOK
  <2>1. OwnersOK /\ BindersOK
    BY DEF TableOK
  <2>2. OwnersOK'
    <3> SUFFICES ASSUME NEW p \in Ports, pid[p] # NoTask
                 PROVE  /\ data[p] = pid[p] /\ pid[p] \in held'
                        /\ port'[pid[p]] = p /\ pc'[pid[p]] \in Owning
      BY <1>1 DEF OwnersOK
    <3>1. pid[p] \in Tasks /\ pid[p] # t
      BY <1>1, <2>1 DEF OwnersOK, Owning, TypeOK
    <3> QED BY <1>1, <1>3, <2>1, <3>1 DEF OwnersOK
  <2>3. BindersOK'
    <3> SUFFICES ASSUME NEW u \in Tasks, Binding(u)'
                 PROVE  /\ port'[u] \in Ports /\ pid[port'[u]] = NoTask
                        /\ u \in held'
                        /\ pc'[u] = "set_pid" => data[port'[u]] = u
                        /\ \A v \in Tasks \ {u} : Binding(v)' => port'[v] # port'[u]
      BY <1>1 DEF BindersOK
    <3>1. \A v \in Tasks : Binding(v)' => /\ Binding(v) /\ v # t
                                         /\ pc'[v] = pc[v] /\ port'[v] = port[v]
      BY <1>3 DEF Binding
    <3> QED BY <1>1, <2>1, <3>1 DEF BindersOK
  <2> QED BY <2>2, <2>3
<1>5. HandlerOK'
  BY <1>1 DEF HandlerOK
<1>6. NoLostWakeUp'
  BY <1>1, <1>3 DEF NoLostWakeUp, Owning
<1>7. DatagramsOK'
  <2> SUFFICES ASSUME defects = {}
               PROVE  (UnreadOK /\ ReaderSleeps /\ WokenHasDatagram)'
    BY <1>1 DEF DatagramsOK
  <2>1. UnreadOK /\ ReaderSleeps /\ WokenHasDatagram
    BY DEF DatagramsOK
  <2>2. UnreadOK'
    BY <1>1, <1>3, <2>1 DEF UnreadOK, TypeOK
  <2>3. ReaderSleeps'
    BY <1>1, <1>3, <2>1 DEF ReaderSleeps, Reader
  <2>4. WokenHasDatagram'
    BY <1>1, <1>3, <2>1 DEF WokenHasDatagram, Owning
  <2> QED BY <2>2, <2>3, <2>4
<1>8. BuffersKnown'
  BY <1>1, <1>3 DEF BuffersKnown, Binding
<1> QED BY <1>2, <1>4, <1>5, <1>6, <1>7, <1>8

LEMMA RecvSegmentKeeps ==
  ASSUME Inv, NEW d \in coming, NEW p \in Ports, RecvSegment(d, p)
  PROVE  Inv'
<1> USE DEF Inv, table, handler, tasks, history
<1>1. /\ hpc = "idle" /\ coming' = coming \ {d} /\ d \in Datagrams
      /\ UNCHANGED <<pid, data, sender, buffer, held, pc, port, unread, defects>>
      /\ \/ UNCHANGED <<hpc, datagram, dest>>
         \/ /\ hpc' = "memcpy" /\ datagram' = d /\ dest' = p /\ pid[p] # NoTask
  BY DEF RecvSegment, HGoto, TypeOK
<1>2. TypeOK'
  BY <1>1 DEF TypeOK
<1>3. TableOK'
  BY <1>1 DEF TableOK, OwnersOK, BindersOK, Binding
<1>4. HandlerOK'
  BY <1>1 DEF HandlerOK
<1>5. NoLostWakeUp'
  BY <1>1 DEF NoLostWakeUp
<1>6. DatagramsOK'
  BY <1>1 DEF DatagramsOK, UnreadOK, ReaderSleeps, Reader, WokenHasDatagram
<1>7. BuffersKnown'
  BY <1>1 DEF BuffersKnown, Binding
<1> QED BY <1>2, <1>3, <1>4, <1>5, <1>6, <1>7

LEMMA CopyKeeps == ASSUME Inv, Copy PROVE Inv'
<1> USE DEF Inv, table, handler, tasks, history
<1>1. /\ hpc = "memcpy" /\ hpc' = "address"
      /\ buffer' = [t \in Tasks |-> IF t = Reader THEN datagram ELSE buffer[t]]
      /\ unread' = unread \cup {Reader}
      /\ defects' = IF pc[Reader] # "blocked" THEN defects \cup {"early"}
                    ELSE defects
      /\ UNCHANGED <<pid, data, sender, held, pc, port, datagram, dest, coming>>
  BY DEF Copy, HGoto
<1>2. Reader \in Tasks /\ dest \in Ports /\ datagram \in Datagrams
  BY <1>1 DEF BuffersKnown, HandlerOK, Reader
<1>3. TypeOK'
  BY <1>1, <1>2 DEF TypeOK
<1>4. TableOK'
  BY <1>1 DEF TableOK, OwnersOK, BindersOK, Binding
<1>5. HandlerOK'
  BY <1>1 DEF HandlerOK
<1>6. NoLostWakeUp'
  BY <1>1 DEF NoLostWakeUp, Reader
<1>7. DatagramsOK'
  <2> SUFFICES ASSUME defects' = {}
               PROVE  (UnreadOK /\ ReaderSleeps /\ WokenHasDatagram)'
    BY DEF DatagramsOK
  <2>1. /\ pc[Reader] = "blocked" /\ Reader' = Reader
        /\ UnreadOK /\ WokenHasDatagram
    BY <1>1 DEF DatagramsOK, Reader
  <2>2. UnreadOK'
    BY <1>1, <2>1 DEF UnreadOK
  <2>3. ReaderSleeps'
    BY <1>1, <1>2, <2>1 DEF ReaderSleeps
  <2>4. WokenHasDatagram'
    BY <1>1, <2>1 DEF WokenHasDatagram
  <2> QED BY <2>2, <2>3, <2>4
<1>8. BuffersKnown'
  BY <1>1 DEF BuffersKnown, Binding
<1> QED BY <1>3, <1>4, <1>5, <1>6, <1>7, <1>8

(* Until a defect strikes, the reader is the port's owner.                 *)
LEMMA ReaderOwns ==
  ASSUME Inv, defects = {}, hpc # "idle"
  PROVE  dest \in Ports /\ pid[dest] = Reader /\ Reader \in Tasks /\ port[Reader] = dest
BY DEF Inv, TypeOK, TableOK, OwnersOK, HandlerOK, Reader

LEMMA AddressKeeps == ASSUME Inv, Address PROVE Inv'
<1> USE DEF Inv, tasks, history
<1>1. /\ hpc = "address" /\ hpc' = "wake"
      /\ sender' = [sender EXCEPT ![dest] = datagram]
      /\ UNCHANGED <<pid, data, buffer, held, pc, port, datagram, dest, coming,
                     unread, defects>>
  BY DEF Address, HGoto
<1>2. dest \in Ports /\ datagram \in Datagrams
  BY <1>1 DEF HandlerOK
<1>3. TypeOK'
  BY <1>1, <1>2 DEF TypeOK
<1>4. TableOK'
  BY <1>1 DEF TableOK, OwnersOK, BindersOK, Binding
<1>5. HandlerOK'
  BY <1>1 DEF HandlerOK
<1>6. NoLostWakeUp'
  BY <1>1 DEF NoLostWakeUp
<1>7. DatagramsOK'
  <2> SUFFICES ASSUME defects = {}
               PROVE  (UnreadOK /\ ReaderSleeps /\ WokenHasDatagram)'
    BY <1>1 DEF DatagramsOK
  <2>1. UnreadOK /\ ReaderSleeps /\ WokenHasDatagram
    BY DEF DatagramsOK
  <2>2. UnreadOK'
    BY <1>1, <2>1 DEF UnreadOK
  <2>3. ReaderSleeps'
    BY <1>1, <1>2, <2>1 DEF ReaderSleeps, Reader, TypeOK
  <2>4. WokenHasDatagram'
    <3> SUFFICES ASSUME NEW u \in Tasks, pc[u] = "woken"
                 PROVE  /\ buffer[u] \in Datagrams
                        /\ port[u] \in Ports /\ pid[port[u]] = u
                        /\ sender'[port[u]] = buffer[u]
      BY <1>1 DEF WokenHasDatagram
    <3>1. port[u] # dest
      BY <1>1, <2>1, ReaderOwns DEF WokenHasDatagram, ReaderSleeps
    <3> QED BY <1>1, <2>1, <3>1 DEF WokenHasDatagram, TypeOK
  <2> QED BY <2>2, <2>3, <2>4
<1>8. BuffersKnown'
  BY <1>1 DEF BuffersKnown, Binding
<1> QED BY <1>3, <1>4, <1>5, <1>6, <1>7, <1>8

LEMMA WakeKeeps == ASSUME Inv, Wake PROVE Inv'
<1> USE DEF Inv, table, history
<1>1. /\ hpc = "wake" /\ hpc' = "idle"
      /\ pc' = [t \in Tasks |-> IF t = pid[dest] /\ pc[t] = "blocked" THEN "woken"
                                ELSE pc[t]]
      /\ datagram' = Nothing /\ dest' = 0
      /\ UNCHANGED <<pid, data, sender, buffer, held, port, coming, unread, defects>>
  BY DEF Wake, HGoto
<1>2. TypeOK'
  BY <1>1 DEF TypeOK
<1>3. \A u \in Tasks : /\ Binding(u)' <=> Binding(u)
                       /\ pc'[u] = "set_pid" <=> pc[u] = "set_pid"
                       /\ pc[u] \in Owning => pc'[u] \in Owning
                       /\ pc'[u] = pc[u] \/ (u = pid[dest] /\ pc[u] = "blocked"
                                                           /\ pc'[u] = "woken")
  BY <1>1 DEF Binding, Owning
<1>4. TableOK'
  <2>1. OwnersOK => OwnersOK'
    BY <1>1, <1>3 DEF OwnersOK, TypeOK
  <2>2. BindersOK => BindersOK'
    BY <1>1, <1>3 DEF BindersOK
  <2> QED BY <1>1, <2>1, <2>2 DEF TableOK
<1>5. HandlerOK'
  BY <1>1 DEF HandlerOK
<1>6. NoLostWakeUp'
  BY <1>1, <1>3, ReaderOwns DEF NoLostWakeUp, Reader
<1>7. DatagramsOK'
  <2> SUFFICES ASSUME defects = {}
               PROVE  (UnreadOK /\ ReaderSleeps /\ WokenHasDatagram)'
    BY <1>1 DEF DatagramsOK
  <2>1. UnreadOK /\ ReaderSleeps /\ WokenHasDatagram
    BY DEF DatagramsOK
  <2>2. UnreadOK'
    BY <1>1, <1>3, <2>1 DEF UnreadOK, TypeOK
  <2>3. ReaderSleeps'
    BY <1>1 DEF ReaderSleeps
  <2>4. WokenHasDatagram'
    <3> SUFFICES ASSUME NEW u \in Tasks, pc'[u] = "woken"
                 PROVE  /\ buffer[u] \in Datagrams
                        /\ port[u] \in Ports /\ pid[port[u]] = u
                        /\ sender[port[u]] = buffer[u]
      BY <1>1 DEF WokenHasDatagram
    <3>1. CASE pc[u] = "woken"
      BY <2>1, <3>1 DEF WokenHasDatagram
    <3>2. CASE u = pid[dest] /\ pc[u] = "blocked"
      BY <1>1, <2>1, <3>2, ReaderOwns DEF ReaderSleeps, HandlerOK
    <3> QED BY <1>3, <3>1, <3>2
  <2> QED BY <2>2, <2>3, <2>4
<1>8. BuffersKnown'
  BY <1>1, <1>3 DEF BuffersKnown
<1> QED BY <1>2, <1>4, <1>5, <1>6, <1>7, <1>8

LEMMA InvStep == Inv /\ [Next]_vars => Inv'
<1> SUFFICES ASSUME Inv, [Next]_vars PROVE Inv'
  OBVIOUS
<1>1. ASSUME NEW t \in Tasks, Task(t) PROVE Inv'
  BY <1>1, BindKeeps, SetDataKeeps, SetPidKeeps, ReceiveKeeps, ReadKeeps,
    UnbindKeeps, KFreeKeeps DEF Task
<1>2. CASE Handler
  BY <1>2, RecvSegmentKeeps, CopyKeeps, AddressKeeps, WakeKeeps DEF Handler
<1>3. CASE UNCHANGED vars
  <2>1. /\ pid' = pid /\ data' = data /\ sender' = sender /\ buffer' = buffer
        /\ held' = held /\ pc' = pc /\ port' = port /\ hpc' = hpc
        /\ datagram' = datagram /\ dest' = dest /\ coming' = coming
        /\ unread' = unread /\ defects' = defects
    BY <1>3 DEF vars, table, tasks, handler, history
  <2>2. TypeOK' /\ BuffersKnown'
    BY <2>1 DEF Inv, TypeOK, BuffersKnown, Binding
  <2>3. TableOK'
    BY <2>1 DEF Inv, TableOK, OwnersOK, BindersOK, Binding
  <2>4. HandlerOK' /\ NoLostWakeUp'
    BY <2>1 DEF Inv, HandlerOK, NoLostWakeUp
  <2>5. DatagramsOK'
    BY <2>1 DEF Inv, DatagramsOK, UnreadOK, ReaderSleeps, Reader, WokenHasDatagram
  <2> QED BY <2>2, <2>3, <2>4, <2>5 DEF Inv
<1> QED BY <1>1, <1>2, <1>3 DEF Next, Quiet

LEMMA InvHolds == Spec => []Inv
<1> QED BY InitInv, InvStep, PTL DEF Spec

-----------------------------------------------------------------------------
(* A port's buffer belongs to its owner and is allocated, until two tasks  *)
(* bind one port at once (udp_port_bind tests and sets without a lock).    *)
THEOREM PortsHaveTheirBuffers == Spec => []PortHasItsBuffer
<1>1. Inv => PortHasItsBuffer
  BY DEF Inv, TableOK, OwnersOK, PortHasItsBuffer
<1> QED BY InvHolds, <1>1, PTL

(* udp_forward_segment_to_process writes to an allocated buffer and wakes  *)
(* a task that there is, until a port is unbound under it or bound twice.  *)
THEOREM HandlerServesOwner == Spec => []ForwardsToOwner
<1>1. Inv => ForwardsToOwner
  BY DEF Inv, TableOK, OwnersOK, HandlerOK, ForwardsToOwner
<1> QED BY InvHolds, <1>1, PTL

(* No task sleeps on beside a datagram that it has not read.               *)
THEOREM ReadersAreWoken == Spec => []NoLostWakeUp
<1>1. Inv => NoLostWakeUp
  BY DEF Inv
<1> QED BY InvHolds, <1>1, PTL

(* What a task reads is one datagram and the address of its own sender.    *)
THEOREM DatagramsAreWhole == Spec => ReadsOneDatagram
<1>1. Inv => ([\A t \in Tasks :
                 pc[t] = "woken" /\ pc'[t] # "woken" /\ defects = {} =>
                   buffer[t] \in Datagrams /\ sender[port[t]] = buffer[t]]_vars)
  BY DEF Inv, DatagramsOK, WokenHasDatagram
<1> QED BY InvHolds, <1>1, PTL DEF ReadsOneDatagram

-----------------------------------------------------------------------------
(* The order of the naturals.                                              *)
LEMMA Least ==
  ASSUME NEW S \in SUBSET Nat, S # {}
  PROVE  \E m \in S : \A k \in S : m <= k
<1> DEFINE R == OpToRel(<, Nat)
<1>1. IsWellFoundedOn(R, Nat)
  BY NatLessThanWellFounded
<1>2. \A a, b \in Nat : a < b => <<a, b>> \in R
  BY DEF OpToRel
<1> HIDE DEF R
<1>3. PICK m \in S : \A k \in S : ~(<<k, m>> \in R)
  BY <1>1, WFMin
<1>4. \A k \in S : ~(k < m)
  BY <1>2, <1>3
<1> QED BY <1>4

LEMMA Inductive ==
  ASSUME NEW S, 0 \in S, \A n \in Nat : n \in S => n + 1 \in S
  PROVE  \A n \in Nat : n \in S
<1> SUFFICES ASSUME NEW n \in Nat, n \notin S PROVE FALSE
  OBVIOUS
<1> DEFINE T == {k \in Nat : k \notin S}
<1>1. PICK m \in T : \A k \in T : m <= k
  BY Least
<1>2. m # 0 /\ m - 1 \in Nat
  OBVIOUS
<1>3. m - 1 \in S
  BY <1>1, <1>2
<1> QED BY <1>2, <1>3

LEMMA MinIs ==
  ASSUME NEW S \in SUBSET Nat, NEW m \in S, \A k \in S : m <= k
  PROVE  Min(S) = m
<1>1. \A k \in S : Min(S) <= k /\ Min(S) \in S
  BY DEF Min
<1>2. Min(S) <= m /\ m <= Min(S) /\ Min(S) \in Nat
  BY <1>1
<1> QED BY <1>2

LEMMA MaxIs ==
  ASSUME NEW S \in SUBSET Nat, NEW m \in S, \A k \in S : k <= m
  PROVE  Max(S) = m
<1>1. \A k \in S : Max(S) >= k /\ Max(S) \in S
  BY DEF Max
<1>2. Max(S) <= m /\ m <= Max(S) /\ Max(S) \in Nat
  BY <1>1
<1> QED BY <1>2

-----------------------------------------------------------------------------
(* The ARP table.                                                          *)
Talkers == {m \in Macs : heard[m] # None}

ArpOK ==
  /\ arp_table \in [0..(TableSize - 1) -> [mac : Macs \cup {None}, ip : Word]]
  /\ arp_table_size \in 0..(TableSize - 1)
  /\ heard \in [Macs -> Ips \cup {None}]
  /\ IsFiniteSet(Talkers) /\ arp_table_size = Cardinality(Talkers)

(* An entry below arp_table_size is of a host that has spoken, says what   *)
(* it said last, and is the only one of that host; each such host has one. *)
EntriesOK ==
  /\ \A i \in 0..(arp_table_size - 1) :
       /\ arp_table[i].mac \in Macs /\ heard[arp_table[i].mac] # None
       /\ arp_table[i].ip = heard[arp_table[i].mac]
  /\ \A i, j \in 0..(arp_table_size - 1) :
       arp_table[i].mac = arp_table[j].mac => i = j
  /\ \A m \in Talkers : \E i \in 0..(arp_table_size - 1) : arp_table[i].mac = m

LEMMA BaseFacts ==
  /\ Base \in Nat /\ Base >= 2 /\ Base * Base \in Nat /\ Base * Base >= 4
  /\ TableSize \in Nat \ {0} /\ 0 \in Word /\ Ips \subseteq Word /\ None \notin Ips
<1>1. Base \in Nat /\ Base >= 2
  BY LayersAssumption
<1>2. PICK b \in Nat : Base = b + 2
  <2>1. Base - 2 \in Nat /\ Base = (Base - 2) + 2
    BY <1>1
  <2> QED BY <2>1
<1>3. Base * Base = b * b + 4 * b + 4 /\ b * b \in Nat
  BY <1>2
<1>4. Base * Base \in Nat /\ Base * Base >= 4
  BY <1>3
<1>5. TableSize \in Nat \ {0} /\ Ips \subseteq Word /\ None \notin Word
  BY LayersAssumption
<1>6. 0 \in Word
  <2> DEFINE d == Base * Base
  <2>1. d \in Nat /\ d >= 4
    BY <1>4
  <2> HIDE DEF d
  <2>2. 0 \in 0..(d - 1)
    BY <2>1
  <2> QED BY <2>2 DEF Word, d
<1> QED BY <1>1, <1>4, <1>5, <1>6

LEMMA InitArp == LayersInit => ArpOK /\ EntriesOK
<1> SUFFICES ASSUME LayersInit PROVE ArpOK /\ EntriesOK
  OBVIOUS
<1>1. Talkers = {}
  BY DEF LayersInit, Talkers
<1> QED BY <1>1, FS_EmptySet, BaseFacts DEF LayersInit, ArpOK, EntriesOK

(* A host that is known has one entry, and only that changes.              *)
LEMMA KnownHost ==
  ASSUME ArpOK, EntriesOK, NEW f, f.sha \in Macs, f.spa \in Ips,
         Entries(f.sha) # {}, UpdateArpTable(f)
  PROVE  ArpOK' /\ EntriesOK'
<1> DEFINE i == Min(Entries(f.sha))  m == f.sha
<1>1. Entries(m) \in SUBSET Nat
  BY DEF Entries, ArpOK
<1>2. PICK k \in Entries(m) : \A j \in Entries(m) : k <= j
  BY <1>1, Least
<1>3. i = k
  BY <1>1, <1>2, MinIs
<1>4. /\ i \in 0..(arp_table_size - 1) /\ i \in 0..(TableSize - 1)
      /\ arp_table[i].mac = m /\ i \in Nat
  BY <1>2, <1>3, BaseFacts DEF Entries, ArpOK
<1>5. /\ arp_table' = [arp_table EXCEPT ![i].ip = f.spa]
      /\ heard' = [heard EXCEPT ![m] = f.spa]
      /\ arp_table_size' = arp_table_size
  BY DEF UpdateArpTable
<1> HIDE DEF i, m
<1>6. f.spa # None /\ f.spa \in Word /\ m \in Macs /\ heard[m] # None
  BY <1>4, BaseFacts DEF EntriesOK, m
<1>7. /\ arp_table' \in [0..(TableSize - 1) -> [mac : Macs \cup {None}, ip : Word]]
      /\ heard' \in [Macs -> Ips \cup {None}]
  BY <1>4, <1>5, <1>6 DEF ArpOK
<1>8. \A h \in Macs : heard'[h] = IF h = m THEN f.spa ELSE heard[h]
  BY <1>5 DEF ArpOK
<1>9. Talkers' = Talkers
  BY <1>6, <1>8 DEF Talkers
<1>10. ArpOK'
  BY <1>5, <1>7, <1>9 DEF ArpOK
<1>11. \A j \in 0..(arp_table_size - 1) :
         /\ arp_table'[j].mac = arp_table[j].mac
         /\ arp_table'[j].ip = IF j = i THEN f.spa ELSE arp_table[j].ip
  <2> TAKE j \in 0..(arp_table_size - 1)
  <2>1. j \in 0..(TableSize - 1)
    BY BaseFacts DEF ArpOK
  <2> QED BY <1>4, <1>5, <2>1 DEF ArpOK
<1>12. \A j \in 0..(arp_table_size - 1) : arp_table[j].mac = m => j = i
  BY <1>4 DEF EntriesOK
<1>13. \A j \in 0..(arp_table_size - 1) :
         /\ arp_table'[j].mac \in Macs /\ heard'[arp_table'[j].mac] # None
         /\ arp_table'[j].ip = heard'[arp_table'[j].mac]
  BY <1>4, <1>6, <1>8, <1>11, <1>12 DEF EntriesOK
<1>14. \A j, l \in 0..(arp_table_size - 1) :
         arp_table'[j].mac = arp_table'[l].mac => j = l
  BY <1>11 DEF EntriesOK
<1>15. \A h \in Talkers : \E j \in 0..(arp_table_size - 1) : arp_table'[j].mac = h
  BY <1>11 DEF EntriesOK
<1> QED BY <1>5, <1>9, <1>10, <1>13, <1>14, <1>15 DEF EntriesOK

(* A new host gets the entry behind, or, when that was the last, the table *)
(* starts again with none.                                                 *)
LEMMA NewHost ==
  ASSUME ArpOK, EntriesOK, NEW f, f.sha \in Macs, f.spa \in Ips,
         Entries(f.sha) = {}, UpdateArpTable(f)
  PROVE  ArpOK' /\ EntriesOK'
<1> DEFINE n == arp_table_size  m == f.sha
<1>1. /\ arp_table' = [arp_table EXCEPT ![n] = [mac |-> m, ip |-> f.spa]]
      /\ arp_table_size' = (n + 1) % TableSize
      /\ heard' = IF n + 1 = TableSize THEN [h \in Macs |-> None]
                  ELSE [heard EXCEPT ![m] = f.spa]
  BY DEF UpdateArpTable
<1>2. /\ n \in 0..(TableSize - 1) /\ TableSize \in Nat \ {0} /\ m \in Macs
      /\ f.spa \in Word /\ f.spa # None
  BY BaseFacts DEF ArpOK
<1>3. m \notin Talkers
  BY DEF EntriesOK, Entries
<1> HIDE DEF n, m
<1>4. /\ arp_table' \in [0..(TableSize - 1) -> [mac : Macs \cup {None}, ip : Word]]
      /\ heard' \in [Macs -> Ips \cup {None}]
  BY <1>1, <1>2 DEF ArpOK
<1>5. CASE n + 1 = TableSize
  <2>1. arp_table_size' = 0
    BY <1>1, <1>2, <1>5
  <2>2. Talkers' = {}
    BY <1>1, <1>5 DEF Talkers
  <2> QED BY <1>2, <1>4, <2>1, <2>2, FS_EmptySet DEF ArpOK, EntriesOK
<1>6. CASE n + 1 # TableSize
  <2>1. arp_table_size' = n + 1 /\ n + 1 \in 0..(TableSize - 1)
    BY <1>1, <1>2, <1>6
  <2>2. \A h \in Macs : heard'[h] = IF h = m THEN f.spa ELSE heard[h]
    BY <1>1, <1>6 DEF ArpOK
  <2>3. Talkers' = Talkers \cup {m}
    BY <1>2, <2>2 DEF Talkers
  <2>4. IsFiniteSet(Talkers') /\ Cardinality(Talkers') = n + 1
    BY <1>3, <2>3, FS_AddElement DEF ArpOK, n
  <2>5. ArpOK'
    BY <1>4, <2>1, <2>4 DEF ArpOK
  <2>6. \A j \in 0..n :
          arp_table'[j] = IF j = n THEN [mac |-> m, ip |-> f.spa] ELSE arp_table[j]
    BY <1>1, <1>2 DEF ArpOK
  <2>7. \A j \in 0..(n - 1) : arp_table[j].mac # m
    BY <1>3 DEF EntriesOK, Talkers, n
  <2>8. \A j \in 0..n :
          /\ arp_table'[j].mac \in Macs /\ heard'[arp_table'[j].mac] # None
          /\ arp_table'[j].ip = heard'[arp_table'[j].mac]
    <3> TAKE j \in 0..n
    <3>1. CASE j = n
      BY <1>2, <2>2, <2>6, <3>1
    <3>2. CASE j # n
      <4>1. j \in 0..(n - 1)
        BY <1>2, <3>2
      <4>2. /\ arp_table[j].mac \in Macs /\ heard[arp_table[j].mac] # None
            /\ arp_table[j].ip = heard[arp_table[j].mac]
        BY <4>1 DEF EntriesOK, n
      <4> QED BY <2>2, <2>6, <2>7, <3>2, <4>1, <4>2
    <3> QED BY <3>1, <3>2
  <2>9. \A j, l \in 0..n : arp_table'[j].mac = arp_table'[l].mac => j = l
    <3> SUFFICES ASSUME NEW j \in 0..n, NEW l \in 0..n,
                        arp_table'[j].mac = arp_table'[l].mac
                 PROVE  j = l
      OBVIOUS
    <3>1. j = n \/ j \in 0..(n - 1)
      BY <1>2
    <3>2. l = n \/ l \in 0..(n - 1)
      BY <1>2
    <3>3. CASE j \in 0..(n - 1) /\ l \in 0..(n - 1)
      <4>1. arp_table[j].mac = arp_table[l].mac
        BY <1>2, <2>6, <3>3
      <4> QED BY <3>3, <4>1 DEF EntriesOK, n
    <3> QED BY <1>2, <2>6, <2>7, <3>1, <3>2, <3>3
  <2>10. \A h \in Talkers' : \E j \in 0..n : arp_table'[j].mac = h
    <3> TAKE h \in Talkers'
    <3>1. CASE h = m
      BY <1>2, <2>6, <3>1
    <3>2. CASE h \in Talkers
      <4>1. PICK j \in 0..(n - 1) : arp_table[j].mac = h
        BY <3>2 DEF EntriesOK, n
      <4> QED BY <1>2, <2>6, <4>1
    <3> QED BY <2>3, <3>1, <3>2
  <2>11. arp_table_size' - 1 = n
    BY <1>2, <2>1
  <2> QED BY <2>5, <2>8, <2>9, <2>10, <2>11 DEF EntriesOK
<1> QED BY <1>5, <1>6

LEMMA ArpStep == ArpOK /\ EntriesOK /\ [LayersNext]_layers => ArpOK' /\ EntriesOK'
<1> SUFFICES ASSUME ArpOK, EntriesOK, [LayersNext]_layers PROVE ArpOK' /\ EntriesOK'
  OBVIOUS
<1>1. CASE UNCHANGED arp
  BY <1>1 DEF arp, ArpOK, EntriesOK, Talkers
<1>2. ASSUME NEW f \in ArpFrames, RecvArp(f) PROVE ArpOK' /\ EntriesOK'
  <2>1. f.sha \in Macs /\ f.spa \in Ips
    BY DEF ArpFrames
  <2>2. CASE UpdateArpTable(f)
    BY <2>1, <2>2, KnownHost, NewHost
  <2>3. UpdateArpTable(f) \/ UNCHANGED arp
    BY <1>2 DEF RecvArp
  <2> QED BY <1>1, <2>2, <2>3
<1>3. ASSUME NEW f \in ArpFrames \cup IcmpFrames \cup OtherFrames, RecvEthernetFrame(f)
      PROVE  ArpOK' /\ EntriesOK'
  <2>1. CASE f \in ArpFrames
    <3>1. f.ether_type = "ARP"
      BY <2>1 DEF ArpFrames
    <3>2. RecvArp(f)
      BY <1>3, <3>1 DEF RecvEthernetFrame
    <3> QED BY <1>2, <2>1, <3>2
  <2>2. CASE f \in IcmpFrames \cup OtherFrames
    <3>1. f.ether_type # "ARP"
      BY <2>2 DEF IcmpFrames, OtherFrames
    <3>2. UNCHANGED arp
      BY <1>3, <3>1 DEF RecvEthernetFrame, RecvIpv4
    <3> QED BY <1>1, <3>2
  <2> QED BY <1>3, <2>1, <2>2
<1>4. CASE UNCHANGED layers
  BY <1>1, <1>4 DEF layers, arp
<1>5. CASE LayersNext
  BY <1>1, <1>3, <1>5 DEF LayersNext, Send
<1> QED BY <1>4, <1>5

(* Below arp_table_size the table says of every host what it said last.    *)
THEOREM TableIsUpToDate == LayersSpec => []TableIsLatest
<1>1. ArpOK /\ EntriesOK => TableIsLatest
  <2> SUFFICES ASSUME ArpOK, EntriesOK PROVE TableIsLatest
    OBVIOUS
  <2>1. arp_table_size = Cardinality({m \in Macs : heard[m] # None})
    BY DEF ArpOK, Talkers
  <2>2. ASSUME NEW m \in Macs, heard[m] # None
        PROVE  \E i \in 0..(arp_table_size - 1) :
                 arp_table[i] = [mac |-> m, ip |-> heard[m]]
    <3>1. PICK i \in 0..(arp_table_size - 1) : arp_table[i].mac = m
      BY <2>2 DEF EntriesOK, Talkers
    <3>2. arp_table[i].ip = heard[m]
      BY <3>1 DEF EntriesOK
    <3>3. arp_table[i] \in [mac : Macs \cup {None}, ip : Word]
      BY BaseFacts DEF ArpOK
    <3> QED BY <3>1, <3>2, <3>3
  <2> QED BY <2>1, <2>2 DEF TableIsLatest
<1> QED BY InitArp, ArpStep, <1>1, PTL DEF LayersSpec
-----------------------------------------------------------------------------
(* Division by any divisor.                                                *)
LEMMA Division ==
  ASSUME NEW d \in Nat \ {0}, NEW n \in Nat
  PROVE  /\ n \div d \in Nat /\ n % d \in 0..(d - 1)
         /\ n = d * (n \div d) + (n % d)
OBVIOUS

(* No two different numbers below d differ by a multiple of it.            *)
LEMMA OneRemainder ==
  ASSUME NEW d \in Nat \ {0}, NEW v \in Int, NEW w \in Int, NEW p \in Nat, NEW q \in Nat,
         v - w < d, w - v < d, v + p * d = w + q * d
  PROVE  v = w
<1>1. ASSUME NEW a \in Nat, NEW b \in Nat, a > b PROVE a * d >= b * d + d
  <2>1. PICK c \in Nat : a = b + 1 + c
    <3>1. a - b - 1 \in Nat /\ a = b + 1 + (a - b - 1)
      BY <1>1
    <3> QED BY <3>1
  <2>2. a * d = b * d + d + c * d /\ c * d \in Nat /\ b * d \in Nat
    BY <2>1
  <2> QED BY <2>2
<1>2. p * d \in Nat /\ q * d \in Nat
  OBVIOUS
<1>3. ~(p > q)
  <2> SUFFICES ASSUME p > q PROVE FALSE
    OBVIOUS
  <2>1. p * d >= q * d + d
    BY <1>1
  <2> QED BY <1>2, <2>1
<1>4. ~(q > p)
  <2> SUFFICES ASSUME q > p PROVE FALSE
    OBVIOUS
  <2>1. q * d >= p * d + d
    BY <1>1
  <2> QED BY <1>2, <2>1
<1>5. p = q
  BY <1>3, <1>4
<1> QED BY <1>2, <1>5

LEMMA MultiplesVanish ==
  ASSUME NEW d \in Nat \ {0}, NEW k \in Nat
  PROVE  (k * d) % d = 0
<1> DEFINE n == k * d
           q == n \div d
           r == n % d
<1>1. n \in Nat
  OBVIOUS
<1>2. q \in Nat /\ r \in 0..(d - 1) /\ n = d * q + r
  BY <1>1, Division
<1>3. 0 + k * d = r + q * d
  BY <1>1, <1>2
<1> HIDE DEF n, q, r
<1>4. 0 - r < d /\ r - 0 < d /\ r \in Int
  BY <1>2
<1>5. r = 0
  BY <1>2, <1>3, <1>4, OneRemainder
<1> QED BY <1>5 DEF n, r

-----------------------------------------------------------------------------
(* Folding the carries back: the sum stays what it was but for multiples   *)
(* of the largest word, and it comes to an end.                            *)
Ones == Base * Base - 1

Congruent(n, w) == \E q \in Nat : n = w + q * Ones

LEMMA OnesFacts == /\ Ones \in Nat \ {0} /\ Word = 0..Ones
                   /\ Base * Base = Ones + 1 /\ Base * Base \in Nat \ {0}
BY BaseFacts DEF Ones, Word

LEMMA FoldedOnceLess ==
  ASSUME NEW n \in Nat, n \notin Word
  PROVE  /\ FoldedOnce(n) \in Nat \ {0} /\ FoldedOnce(n) < n
         /\ Congruent(n, FoldedOnce(n))
<1> DEFINE d == Base * Base
           b == n \div d
           a == n % d
<1>1. d \in Nat \ {0} /\ Ones \in Nat \ {0} /\ d = Ones + 1 /\ n >= d
  BY OnesFacts
<1>2. FoldedOnce(n) = a + b
  BY DEF FoldedOnce
<1> HIDE DEF d
<1>3. b \in Nat /\ a \in 0..(d - 1) /\ n = d * b + a
  BY <1>1, Division
<1> HIDE DEF a, b
<1>4. b # 0
  <2> SUFFICES ASSUME b = 0 PROVE FALSE
    OBVIOUS
  <2>1. d * b = 0
    BY <1>1
  <2> QED BY <1>1, <1>3, <2>1
<1>5. d * b = b + b * Ones /\ b * Ones \in Nat
  BY <1>1, <1>3
<1>6. b * Ones # 0
  <2>1. PICK c \in Nat : b = c + 1
    <3>1. b - 1 \in Nat /\ b = (b - 1) + 1
      BY <1>3, <1>4
    <3> QED BY <3>1
  <2>2. b * Ones = c * Ones + Ones /\ c * Ones \in Nat
    BY <1>1, <2>1
  <2> QED BY <1>1, <2>2
<1>7. n = (a + b) + b * Ones
  BY <1>1, <1>3, <1>5
<1>8. a + b \in Nat \ {0} /\ a + b < n
  BY <1>1, <1>3, <1>4, <1>5, <1>6, <1>7
<1> QED BY <1>2, <1>3, <1>7, <1>8 DEF Congruent

(* The words that folding may end with: one for each sum.                  *)
Ends(n, w) == w \in 1..Ones /\ Congruent(n, w)

LEMMA OneEnd ==
  ASSUME NEW n \in Nat \ {0}
  PROVE  /\ \E w \in 1..Ones : Ends(n, w)
         /\ \A v, w \in 1..Ones : Ends(n, v) /\ Ends(n, w) => v = w
<1>1. Ones \in Nat \ {0} /\ n - 1 \in Nat
  BY OnesFacts
<1>2. \E w \in 1..Ones : Ends(n, w)
  <2> DEFINE m == n - 1
             b == m \div Ones
             a == m % Ones
  <2>1. b \in Nat /\ a \in 0..(Ones - 1) /\ m = Ones * b + a
    BY <1>1, Division
  <2>2. n = m + 1
    OBVIOUS
  <2> HIDE DEF m, a, b
  <2>3. a + 1 \in 1..Ones /\ Ones * b = b * Ones /\ b * Ones \in Nat
    BY <1>1, <2>1
  <2>4. n = (a + 1) + b * Ones
    BY <1>1, <2>1, <2>2, <2>3
  <2> QED BY <2>1, <2>3, <2>4 DEF Ends, Congruent
<1>3. ASSUME NEW v \in 1..Ones, NEW w \in 1..Ones, Ends(n, v), Ends(n, w)
      PROVE  v = w
  <2>1. PICK p \in Nat : n = v + p * Ones
    BY <1>3 DEF Ends, Congruent
  <2>2. PICK q \in Nat : n = w + q * Ones
    BY <1>3 DEF Ends, Congruent
  <2>3. v \in Int /\ w \in Int /\ v - w < Ones /\ w - v < Ones
    BY <1>1
  <2>4. v + p * Ones = w + q * Ones
    BY <2>1, <2>2
  <2> QED BY <1>1, <2>3, <2>4, OneRemainder
<1> QED BY <1>2, <1>3

LEMMA CongruentFar ==
  ASSUME NEW n \in Nat, NEW m \in Nat, NEW w \in Nat, Congruent(n, m), Congruent(m, w)
  PROVE  Congruent(n, w)
<1>1. PICK p \in Nat : n = m + p * Ones
  BY DEF Congruent
<1>2. PICK q \in Nat : m = w + q * Ones
  BY DEF Congruent
<1>3. Ones \in Nat /\ p + q \in Nat
  BY OnesFacts
<1>4. n = w + (p + q) * Ones
  BY <1>1, <1>2, <1>3
<1> QED BY <1>3, <1>4 DEF Congruent

IsFolding(f) ==
  f = [n \in Nat |-> IF n \in Word THEN n ELSE f[FoldedOnce(n)]]

LEMMA FoldingExists == \E f : IsFolding(f)
<1> DEFINE End(n) == CHOOSE w \in 1..Ones : Ends(n, w)
           f == [n \in Nat |-> IF n \in Word THEN n ELSE End(n)]
<1>1. Word = 0..Ones /\ Ones \in Nat \ {0} /\ Word \subseteq Nat
  BY OnesFacts
<1>2. ASSUME NEW n \in Nat \ {0} PROVE End(n) \in 1..Ones /\ Ends(n, End(n))
  BY OneEnd
<1>3. ASSUME NEW n \in Nat, n \notin Word
      PROVE  End(n) = f[FoldedOnce(n)]
  <2> DEFINE m == FoldedOnce(n)
  <2>1. m \in Nat \ {0} /\ Congruent(n, m)
    BY <1>3, FoldedOnceLess
  <2>2. n \in Nat \ {0}
    BY <1>1, <1>3
  <2>3. End(n) \in 1..Ones /\ Ends(n, End(n))
    BY <1>2, <2>2
  <2>4. f[m] \in 1..Ones /\ Congruent(m, f[m])
    <3>1. CASE m \in Word
      <4>1. f[m] = m /\ m \in 1..Ones
        BY <1>1, <2>1, <3>1
      <4>2. m = m + 0 * Ones
        BY <1>1, <2>1
      <4>3. Congruent(m, m)
        BY <4>2 DEF Congruent
      <4> HIDE DEF f, m
      <4> QED BY <4>1, <4>3
    <3>2. CASE m \notin Word
      <4>1. f[m] = End(m)
        BY <2>1, <3>2
      <4>2. End(m) \in 1..Ones /\ Ends(m, End(m))
        BY <1>2, <2>1
      <4> HIDE DEF f, m, End
      <4> QED BY <4>1, <4>2 DEF Ends
    <3> QED BY <3>1, <3>2
  <2> HIDE DEF f, m, End
  <2>5. f[m] \in Nat /\ n \in Nat /\ m \in Nat
    BY <1>1, <2>1, <2>4
  <2>6. Congruent(n, f[m])
    BY <2>1, <2>4, <2>5, CongruentFar
  <2>7. Ends(n, f[m])
    BY <2>4, <2>6 DEF Ends
  <2>8. End(n) = f[m]
    BY <2>2, <2>3, <2>4, <2>7, OneEnd
  <2> QED BY <2>8 DEF m
<1>4. \A n \in Nat : f[n] = IF n \in Word THEN n ELSE f[FoldedOnce(n)]
  <2> TAKE n \in Nat
  <2>1. CASE n \in Word
    BY <2>1
  <2>2. CASE n \notin Word
    <3>1. f[n] = End(n)
      BY <2>2
    <3>2. End(n) = f[FoldedOnce(n)]
      BY <1>3, <2>2
    <3> HIDE DEF f, End
    <3> QED BY <2>2, <3>1, <3>2
  <2> QED BY <2>1, <2>2
<1>5. f = [n \in Nat |-> f[n]]
  OBVIOUS
<1> HIDE DEF f
<1>6. f = [n \in Nat |-> IF n \in Word THEN n ELSE f[FoldedOnce(n)]]
  BY <1>4, <1>5
<1>7. IsFolding(f)
  BY <1>6 DEF IsFolding
<1> QED BY <1>7

LEMMA FoldedIs ==
  ASSUME NEW n \in Nat
  PROVE  Folded(n) \in Word /\ Congruent(n, Folded(n))
<1> DEFINE f == CHOOSE g : g = [k \in Nat |-> IF k \in Word THEN k ELSE g[FoldedOnce(k)]]
<1>1. Folded(n) = f[n]
  BY DEF Folded
<1>2. PICK g : IsFolding(g)
  BY FoldingExists
<1>3. g = [k \in Nat |-> IF k \in Word THEN k ELSE g[FoldedOnce(k)]]
  BY <1>2 DEF IsFolding
<1>4. f = [k \in Nat |-> IF k \in Word THEN k ELSE f[FoldedOnce(k)]]
  BY <1>3
<1> HIDE DEF f
<1>5. \A k \in Nat : f[k] = IF k \in Word THEN k ELSE f[FoldedOnce(k)]
  BY <1>4
<1> DEFINE Good(k) == f[k] \in Word /\ Congruent(k, f[k])
           Bad == {k \in Nat : ~Good(k)}
<1>6. Ones \in Nat \ {0} /\ Word \subseteq Nat
  BY OnesFacts
<1>7. ASSUME Bad # {} PROVE FALSE
  <2>1. PICK k \in Bad : \A j \in Bad : k <= j
    BY <1>7, Least
  <2>2. k \in Nat /\ ~Good(k)
    OBVIOUS
  <2>3. CASE k \in Word
    <3>1. f[k] = k /\ k = k + 0 * Ones
      BY <1>5, <1>6, <2>2, <2>3
    <3> QED BY <2>2, <2>3, <3>1 DEF Congruent
  <2>4. CASE k \notin Word
    <3> DEFINE m == FoldedOnce(k)
    <3>1. m \in Nat /\ m < k /\ Congruent(k, m)
      BY <2>2, <2>4, FoldedOnceLess
    <3>2. f[k] = f[m]
      BY <1>5, <2>2, <2>4
    <3> HIDE DEF m
    <3>3. m \notin Bad
      BY <2>1, <2>2, <3>1
    <3>4. Good(m)
      BY <3>1, <3>3
    <3>5. f[m] \in Nat
      BY <1>6, <3>4
    <3>6. Congruent(k, f[m])
      BY <2>2, <3>1, <3>4, <3>5, CongruentFar
    <3> QED BY <2>2, <3>2, <3>4, <3>6
  <2> QED BY <2>3, <2>4
<1> QED BY <1>1, <1>7
-----------------------------------------------------------------------------
(* Total is a fold: FoldLeft defines it by a function on the sets of       *)
(* positions, that takes the last one away.                                *)
IsSum(g, s, n) ==
  g = [t \in SUBSET (1..n) |-> IF t = {} THEN 0 ELSE g[t \ {Max(t)}] + s[Max(t)]]

LEMMA SumExists ==
  ASSUME NEW s
  PROVE  \A n \in Nat : \E g : IsSum(g, s, n)
<1> DEFINE S == {n \in Nat : \E g : IsSum(g, s, n)}
<1>1. 0 \in S
  <2> DEFINE g == [t \in SUBSET (1..0) |-> 0]
  <2>1. SUBSET (1..0) = {{}}
    OBVIOUS
  <2>2. IsSum(g, s, 0)
    BY <2>1 DEF IsSum
  <2> QED BY <2>2
<1>2. ASSUME NEW n \in Nat, n \in S PROVE n + 1 \in S
  <2>1. PICK g : IsSum(g, s, n)
    BY <1>2
  <2> DEFINE h == [t \in SUBSET (1..(n + 1)) |->
                     IF n + 1 \in t THEN g[t \ {n + 1}] + s[n + 1] ELSE g[t]]
             G(t) == IF t = {} THEN 0 ELSE g[t \ {Max(t)}] + s[Max(t)]
             H(t) == IF t = {} THEN 0 ELSE h[t \ {Max(t)}] + s[Max(t)]
  <2>2. \A t \in SUBSET (1..n) : g[t] = G(t)
    BY <2>1 DEF IsSum
  <2>3. ASSUME NEW t \in SUBSET (1..(n + 1)) PROVE h[t] = H(t)
    <3>1. CASE n + 1 \in t
      <4>1. t \in SUBSET Nat /\ \A k \in t : k <= n + 1
        OBVIOUS
      <4>2. Max(t) = n + 1
        BY <3>1, <4>1, MaxIs
      <4>3. t \ {n + 1} \in SUBSET (1..(n + 1)) /\ n + 1 \notin t \ {n + 1}
        OBVIOUS
      <4>4. h[t \ {n + 1}] = g[t \ {n + 1}]
        BY <4>3
      <4>5. h[t] = g[t \ {n + 1}] + s[n + 1]
        BY <3>1
      <4> HIDE DEF h
      <4> QED BY <3>1, <4>2, <4>4, <4>5
    <3>2. CASE n + 1 \notin t
      <4>1. t \in SUBSET (1..n)
        BY <3>2
      <4>2. h[t] = g[t] /\ g[t] = G(t)
        BY <2>2, <3>2, <4>1
      <4>3. h[t \ {Max(t)}] = g[t \ {Max(t)}]
        BY <3>2
      <4> HIDE DEF h
      <4> QED BY <4>2, <4>3
    <3> QED BY <3>1, <3>2
  <2>4. h = [t \in SUBSET (1..(n + 1)) |-> H(t)]
    BY <2>3
  <2>5. IsSum(h, s, n + 1)
    <3> HIDE DEF h
    <3> QED BY <2>4 DEF IsSum
  <2> QED BY <2>5
<1> HIDE DEF S
<1>3. \A n \in Nat : n \in S
  BY <1>1, <1>2, Inductive
<1> QED BY <1>3 DEF S

GoesOn(g, s, n) == \A k \in 1..n : g[1..k] = g[1..(k - 1)] + s[k]

LEMMA SumGoesOn ==
  ASSUME NEW s, NEW n \in Nat, NEW g, IsSum(g, s, n)
  PROVE  GoesOn(g, s, n) /\ g[{}] = 0
<1>1. ASSUME NEW k \in 1..n PROVE g[1..k] = g[1..(k - 1)] + s[k]
  <2>1. /\ 1..k \in SUBSET (1..n) /\ 1..k \in SUBSET Nat /\ k \in 1..k
        /\ \A i \in 1..k : i <= k
        /\ (1..k) \ {k} = 1..(k - 1)
    OBVIOUS
  <2>2. Max(1..k) = k
    <3> DEFINE t == 1..k
    <3> HIDE DEF t
    <3>1. t \in SUBSET Nat /\ k \in t /\ \A i \in t : i <= k
      BY <2>1 DEF t
    <3>2. Max(t) = k
      BY <3>1, MaxIs
    <3> QED BY <3>2 DEF t
  <2>3. 1..k # {}
    BY <2>1
  <2>4. g[1..k] = g[(1..k) \ {Max(1..k)}] + s[Max(1..k)]
    BY <2>1, <2>3 DEF IsSum
  <2> QED BY <2>1, <2>2, <2>4
<1>2. {} \in SUBSET (1..n)
  OBVIOUS
<1> QED BY <1>1, <1>2 DEF IsSum, GoesOn

LEMMA NoPositions == 1..0 = {}
OBVIOUS

BeginsWith(longer, s, n) == \A i \in 1..n : s[i] = longer[i]

LEMMA SumsAgree ==
  ASSUME NEW s, NEW longer, NEW n \in Nat, NEW m \in Nat,
         n <= m, BeginsWith(longer, s, n),
         NEW g, IsSum(g, s, n), NEW h, IsSum(h, longer, m)
  PROVE  g[1..n] = h[1..n]
<1> DEFINE S == {k \in Nat : k <= n => g[1..k] = h[1..k]}
<1>1. GoesOn(g, s, n) /\ GoesOn(h, longer, m) /\ g[{}] = 0 /\ h[{}] = 0
  BY SumGoesOn
<1>2. 0 \in S
  BY <1>1, NoPositions
<1>3. ASSUME NEW k \in Nat, k \in S PROVE k + 1 \in S
  <2> SUFFICES ASSUME k + 1 <= n PROVE g[1..(k + 1)] = h[1..(k + 1)]
    OBVIOUS
  <2> DEFINE j == k + 1
  <2>1. j \in 1..n /\ j \in 1..m /\ j - 1 = k /\ g[1..k] = h[1..k]
    BY <1>3
  <2>0. s[j] = longer[j]
    BY <2>1 DEF BeginsWith
  <2> HIDE DEF j
  <2>2. g[1..j] = g[1..(j - 1)] + s[j]
    BY <1>1, <2>1 DEF GoesOn
  <2>3. h[1..j] = h[1..(j - 1)] + longer[j]
    BY <1>1, <2>1 DEF GoesOn
  <2>4. g[1..j] = h[1..j]
    BY <2>0, <2>1, <2>2, <2>3
  <2> QED BY <2>4 DEF j
<1> HIDE DEF S
<1>4. \A k \in Nat : k \in S
  BY <1>2, <1>3, Inductive
<1> QED BY <1>4 DEF S

LEMMA TotalIs ==
  ASSUME NEW s \in Seq(Nat)
  PROVE  \E g : IsSum(g, s, Len(s)) /\ Total(s) = g[1..Len(s)]
<1> DEFINE Step(g) == [t \in SUBSET (1..Len(s)) |->
                         IF t = {} THEN 0 ELSE g[t \ {Max(t)}] + s[Max(t)]]
           iter == CHOOSE g : g = Step(g)
<1>1. DOMAIN s = 1..Len(s) /\ Len(s) \in Nat
  OBVIOUS
<1>2. Total(s) = iter[1..Len(s)]
  BY <1>1 DEF Total, FoldLeft, MapThenFoldSet
<1>3. PICK g : IsSum(g, s, Len(s))
  BY <1>1, SumExists
<1>4. g = Step(g)
  BY <1>3 DEF IsSum
<1>5. iter = Step(iter)
  BY <1>4
<1>6. IsSum(iter, s, Len(s))
  BY <1>5 DEF IsSum
<1> QED BY <1>2, <1>6

LEMMA TotalNothing == Total(<<>>) = 0
<1>1. <<>> \in Seq(Nat) /\ Len(<<>>) = 0
  OBVIOUS
<1>2. PICK g : IsSum(g, <<>>, 0) /\ Total(<<>>) = g[1..0]
  BY <1>1, TotalIs
<1>3. g[{}] = 0
  BY <1>2, SumGoesOn
<1> QED BY <1>2, <1>3, NoPositions

LEMMA TotalAppend ==
  ASSUME NEW s \in Seq(Nat), NEW x \in Nat
  PROVE  Total(Append(s, x)) = Total(s) + x
<1> DEFINE n == Len(s)  k == n + 1  longer == Append(s, x)
<1>1. /\ longer \in Seq(Nat) /\ Len(longer) = k /\ n \in Nat /\ k \in Nat /\ n <= k
      /\ k \in 1..k /\ k - 1 = n /\ longer[k] = x
      /\ \A i \in 1..n : s[i] = longer[i]
  OBVIOUS
<1>2. PICK g : IsSum(g, s, n) /\ Total(s) = g[1..n]
  BY TotalIs
<1> HIDE DEF n, k, longer
<1>3. PICK h : IsSum(h, longer, k) /\ Total(longer) = h[1..k]
  BY <1>1, TotalIs
<1>4. g[1..n] = h[1..n]
  <2>1. BeginsWith(longer, s, n)
    BY <1>1 DEF BeginsWith
  <2>2. IsSum(g, s, n) /\ IsSum(h, longer, k)
    BY <1>2, <1>3
  <2>3. n \in Nat /\ k \in Nat /\ n <= k
    BY <1>1
  <2> QED BY <2>1, <2>2, <2>3, SumsAgree
<1>5. GoesOn(h, longer, k)
  BY <1>1, <1>3, SumGoesOn
<1>6. h[1..k] = h[1..(k - 1)] + longer[k]
  BY <1>1, <1>5 DEF GoesOn
<1>7. Total(longer) = Total(s) + x
  BY <1>1, <1>2, <1>3, <1>4, <1>6
<1> QED BY <1>7 DEF longer

LEMMA LastApart ==
  ASSUME NEW n \in Nat, NEW s \in Seq(Nat), Len(s) = n + 1
  PROVE  \E front \in Seq(Nat), x \in Nat : Len(front) = n /\ s = Append(front, x)
<1> DEFINE front == [i \in 1..n |-> s[i]]  x == s[n + 1]
<1>1. front \in Seq(Nat) /\ Len(front) = n /\ x \in Nat
  OBVIOUS
<1>2. s = Append(front, x)
  <2>1. Append(front, x) \in Seq(Nat) /\ Len(Append(front, x)) = Len(s)
    BY <1>1
  <2>2. \A i \in 1..Len(s) : Append(front, x)[i] = s[i]
    BY <1>1
  <2> QED BY <2>1, <2>2, SeqEqual
<1> QED BY <1>1, <1>2

LEMMA TotalIsNat == \A s \in Seq(Nat) : Total(s) \in Nat
<1> DEFINE S == {n \in Nat : \A s \in Seq(Nat) : Len(s) = n => Total(s) \in Nat}
<1>1. 0 \in S
  <2>1. \A s \in Seq(Nat) : Len(s) = 0 => s = <<>>
    OBVIOUS
  <2> QED BY <2>1, TotalNothing
<1>2. ASSUME NEW n \in Nat, n \in S PROVE n + 1 \in S
  <2> SUFFICES ASSUME NEW s \in Seq(Nat), Len(s) = n + 1 PROVE Total(s) \in Nat
    OBVIOUS
  <2>1. PICK front \in Seq(Nat), x \in Nat : Len(front) = n /\ s = Append(front, x)
    BY LastApart
  <2>2. Total(front) \in Nat
    BY <1>2, <2>1
  <2>3. Total(s) = Total(front) + x
    BY <2>1, TotalAppend
  <2> QED BY <2>2, <2>3
<1> HIDE DEF S
<1>3. \A n \in Nat : n \in S
  BY <1>1, <1>2, Inductive
<1>4. \A s \in Seq(Nat) : Len(s) \in S
  BY <1>3
<1> QED BY <1>4 DEF S

LEMMA TotalConcat ==
  ASSUME NEW s \in Seq(Nat)
  PROVE  \A t \in Seq(Nat) : Total(s \o t) = Total(s) + Total(t)
<1> DEFINE S == {n \in Nat : \A t \in Seq(Nat) :
                   Len(t) = n => Total(s \o t) = Total(s) + Total(t)}
<1>1. 0 \in S
  <2> SUFFICES ASSUME NEW t \in Seq(Nat), Len(t) = 0
               PROVE  Total(s \o t) = Total(s) + Total(t)
    OBVIOUS
  <2>1. t = <<>> /\ s \o t = s
    OBVIOUS
  <2>2. Total(s) \in Nat
    BY TotalIsNat
  <2> QED BY <2>1, <2>2, TotalNothing
<1>2. ASSUME NEW n \in Nat, n \in S PROVE n + 1 \in S
  <2> SUFFICES ASSUME NEW t \in Seq(Nat), Len(t) = n + 1
               PROVE  Total(s \o t) = Total(s) + Total(t)
    OBVIOUS
  <2>1. PICK front \in Seq(Nat), x \in Nat : Len(front) = n /\ t = Append(front, x)
    BY LastApart
  <2>2. s \o t = Append(s \o front, x) /\ s \o front \in Seq(Nat)
    BY <2>1
  <2>3. Total(s \o front) = Total(s) + Total(front)
    BY <1>2, <2>1
  <2>4. Total(s \o t) = Total(s \o front) + x
    BY <2>2, TotalAppend
  <2>5. Total(t) = Total(front) + x
    BY <2>1, TotalAppend
  <2>6. Total(s) \in Nat /\ Total(front) \in Nat
    BY TotalIsNat
  <2> QED BY <2>3, <2>4, <2>5, <2>6
<1> HIDE DEF S
<1>3. \A n \in Nat : n \in S
  BY <1>1, <1>2, Inductive
<1>4. \A t \in Seq(Nat) : Len(t) \in S
  BY <1>3
<1> QED BY <1>4 DEF S

-----------------------------------------------------------------------------
(* The words of some data, and its bytes as the receiver weighs them, add  *)
(* up to the same.                                                         *)
Weighed(bytes) == [i \in DOMAIN bytes |-> IF i % 2 = 1 THEN bytes[i] * Base ELSE bytes[i]]

LEMMA AreSequences ==
  ASSUME NEW b \in Seq(Nat)
  PROVE  /\ Words(b) \in Seq(Nat) /\ Len(Words(b)) = (Len(b) + 1) \div 2
         /\ Weighed(b) \in Seq(Nat) /\ Len(Weighed(b)) = Len(b)
<1> DEFINE n == (Len(b) + 1) \div 2
<1>1. Base \in Nat /\ n \in Nat /\ DOMAIN b = 1..Len(b) /\ Len(b) \in Nat
  BY BaseFacts
<1>2. \A i \in 1..n : 2 * i - 1 \in 1..Len(b) /\ (2 * i <= Len(b) => 2 * i \in 1..Len(b))
  OBVIOUS
<1>3. \A i \in 1..Len(b) : b[i] \in Nat /\ b[i] * Base \in Nat
  BY <1>1
<1>4. \A i \in 1..n : b[2 * i - 1] * Base + (IF 2 * i <= Len(b) THEN b[2 * i] ELSE 0) \in Nat
  <2> TAKE i \in 1..n
  <2>1. b[2 * i - 1] * Base \in Nat
    BY <1>2, <1>3
  <2>2. (IF 2 * i <= Len(b) THEN b[2 * i] ELSE 0) \in Nat
    BY <1>2, <1>3
  <2> QED BY <2>1, <2>2
<1>5. Words(b) = [i \in 1..n |->
                    b[2 * i - 1] * Base + (IF 2 * i <= Len(b) THEN b[2 * i] ELSE 0)]
  BY DEF Words
<1> HIDE DEF n
<1>6. Words(b) \in Seq(Nat) /\ Len(Words(b)) = n
  BY <1>1, <1>4, <1>5
<1>7. Weighed(b) \in Seq(Nat) /\ Len(Weighed(b)) = Len(b)
  BY <1>1, <1>3 DEF Weighed
<1> QED BY <1>6, <1>7 DEF n

LEMMA WeightIsNat == \A x \in Nat : x * Base \in Nat
BY BaseFacts

(* A sequence of one number more, position by position.                    *)
Extends(r, s, y) ==
  /\ Len(r) = Len(s) + 1
  /\ \A i \in 1..(Len(s) + 1) : r[i] = IF i = Len(s) + 1 THEN y ELSE s[i]

LEMMA ExtendsIsAppend ==
  ASSUME NEW r \in Seq(Nat), NEW s \in Seq(Nat), NEW y \in Nat, Extends(r, s, y)
  PROVE  r = Append(s, y)
<1>1. Append(s, y) \in Seq(Nat) /\ Len(Append(s, y)) = Len(r)
  BY DEF Extends
<1>2. \A i \in 1..Len(r) : r[i] = Append(s, y)[i]
  <2> TAKE i \in 1..Len(r)
  <2>1. Append(s, y)[i] = IF i = Len(s) + 1 THEN y ELSE s[i]
    BY DEF Extends
  <2> QED BY <2>1 DEF Extends
<1> QED BY <1>1, <1>2, SeqEqual

LEMMA WordOfOne ==
  ASSUME NEW n \in Nat, NEW c \in Seq(Nat), Len(c) = 2 * n, NEW x \in Nat
  PROVE  /\ Words(Append(c, x)) = Append(Words(c), x * Base)
         /\ Weighed(Append(c, x)) = Append(Weighed(c), x * Base)
<1> DEFINE b == Append(c, x)  y == x * Base
<1>1. /\ b \in Seq(Nat) /\ Len(b) = 2 * n + 1 /\ b[2 * n + 1] = x
      /\ \A i \in 1..(2 * n) : b[i] = c[i]
  OBVIOUS
<1>2. y \in Nat
  BY BaseFacts
<1>3. (Len(b) + 1) \div 2 = n + 1 /\ (Len(c) + 1) \div 2 = n
  BY <1>1
<1> HIDE DEF b
<1>4. /\ Words(b) \in Seq(Nat) /\ Len(Words(b)) = n + 1
      /\ Weighed(b) \in Seq(Nat) /\ Len(Weighed(b)) = 2 * n + 1
      /\ Words(c) \in Seq(Nat) /\ Len(Words(c)) = n
      /\ Weighed(c) \in Seq(Nat) /\ Len(Weighed(c)) = 2 * n
  BY <1>1, <1>3, AreSequences
<1>5. ASSUME NEW i \in 1..(n + 1)
      PROVE  Words(b)[i] = IF i = n + 1 THEN y ELSE Words(c)[i]
  <2>1. Words(b)[i] = b[2 * i - 1] * Base + (IF 2 * i <= Len(b) THEN b[2 * i] ELSE 0)
    BY <1>3 DEF Words
  <2>2. CASE i = n + 1
    <3>1. 2 * i - 1 = 2 * n + 1 /\ ~(2 * i <= Len(b))
      BY <1>1, <2>2
    <3>2. Words(b)[i] = y + 0
      BY <1>1, <2>1, <3>1
    <3> QED BY <1>2, <2>2, <3>2
  <2>3. CASE i # n + 1
    <3>1. /\ i \in 1..n /\ 2 * i - 1 \in 1..(2 * n) /\ 2 * i \in 1..(2 * n)
          /\ 2 * i <= Len(b) /\ 2 * i <= Len(c)
      BY <1>1, <2>3
    <3>2. Words(c)[i] = c[2 * i - 1] * Base + c[2 * i]
      BY <1>3, <3>1 DEF Words
    <3> QED BY <1>1, <2>1, <2>3, <3>1, <3>2
  <2> QED BY <2>2, <2>3
<1>6. ASSUME NEW i \in 1..(2 * n + 1)
      PROVE  Weighed(b)[i] = IF i = 2 * n + 1 THEN y ELSE Weighed(c)[i]
  <2>1. DOMAIN b = 1..(2 * n + 1) /\ DOMAIN c = 1..(2 * n) /\ (2 * n + 1) % 2 = 1
    BY <1>1
  <2>2. Weighed(b)[i] = IF i % 2 = 1 THEN b[i] * Base ELSE b[i]
    BY <2>1 DEF Weighed
  <2>3. CASE i = 2 * n + 1
    BY <1>1, <2>1, <2>2, <2>3
  <2>4. CASE i # 2 * n + 1
    <3>1. i \in 1..(2 * n)
      BY <2>4
    <3>2. Weighed(c)[i] = IF i % 2 = 1 THEN c[i] * Base ELSE c[i]
      BY <2>1, <3>1 DEF Weighed
    <3> QED BY <1>1, <2>2, <2>4, <3>1, <3>2
  <2> QED BY <2>3, <2>4
<1> HIDE DEF y
<1>7. Extends(Words(b), Words(c), y) /\ Extends(Weighed(b), Weighed(c), y)
  BY <1>4, <1>5, <1>6 DEF Extends
<1>8. Words(b) = Append(Words(c), y) /\ Weighed(b) = Append(Weighed(c), y)
  BY <1>2, <1>4, <1>7, ExtendsIsAppend
<1> QED BY <1>8 DEF b, y

LEMMA WordOfTwo ==
  ASSUME NEW n \in Nat, NEW c \in Seq(Nat), Len(c) = 2 * n, NEW x \in Nat, NEW z \in Nat
  PROVE  /\ Words(Append(Append(c, x), z)) = Append(Words(c), x * Base + z)
         /\ Weighed(Append(Append(c, x), z)) = Append(Weighed(Append(c, x)), z)
<1> DEFINE d == Append(c, x)  b == Append(d, z)  y == x * Base + z
<1>1. /\ b \in Seq(Nat) /\ Len(b) = 2 * n + 2 /\ b[2 * n + 1] = x /\ b[2 * n + 2] = z
      /\ \A i \in 1..(2 * n) : b[i] = c[i]
      /\ d \in Seq(Nat) /\ Len(d) = 2 * n + 1
      /\ \A i \in 1..(2 * n + 1) : b[i] = d[i]
  OBVIOUS
<1>2. y \in Nat
  BY BaseFacts
<1>3. (Len(b) + 1) \div 2 = n + 1 /\ (Len(c) + 1) \div 2 = n
  BY <1>1
<1> HIDE DEF b, d
<1>4. /\ Words(b) \in Seq(Nat) /\ Len(Words(b)) = n + 1
      /\ Weighed(b) \in Seq(Nat) /\ Len(Weighed(b)) = 2 * n + 2
      /\ Words(c) \in Seq(Nat) /\ Len(Words(c)) = n
      /\ Weighed(d) \in Seq(Nat) /\ Len(Weighed(d)) = 2 * n + 1
  BY <1>1, <1>3, AreSequences
<1>5. ASSUME NEW i \in 1..(n + 1)
      PROVE  Words(b)[i] = IF i = n + 1 THEN y ELSE Words(c)[i]
  <2>1. Words(b)[i] = b[2 * i - 1] * Base + (IF 2 * i <= Len(b) THEN b[2 * i] ELSE 0)
    BY <1>3 DEF Words
  <2>2. CASE i = n + 1
    <3>1. 2 * i - 1 = 2 * n + 1 /\ 2 * i <= Len(b) /\ 2 * i = 2 * n + 2
      BY <1>1, <2>2
    <3> QED BY <1>1, <2>1, <2>2, <3>1
  <2>3. CASE i # n + 1
    <3>1. /\ i \in 1..n /\ 2 * i - 1 \in 1..(2 * n) /\ 2 * i \in 1..(2 * n)
          /\ 2 * i <= Len(b) /\ 2 * i <= Len(c)
      BY <1>1, <2>3
    <3>2. Words(c)[i] = c[2 * i - 1] * Base + c[2 * i]
      BY <1>3, <3>1 DEF Words
    <3> QED BY <1>1, <2>1, <2>3, <3>1, <3>2
  <2> QED BY <2>2, <2>3
<1>6. ASSUME NEW i \in 1..(2 * n + 2)
      PROVE  Weighed(b)[i] = IF i = 2 * n + 2 THEN z ELSE Weighed(d)[i]
  <2>1. /\ DOMAIN b = 1..(2 * n + 2) /\ DOMAIN d = 1..(2 * n + 1)
        /\ (2 * n + 2) % 2 # 1
    BY <1>1
  <2>2. Weighed(b)[i] = IF i % 2 = 1 THEN b[i] * Base ELSE b[i]
    BY <2>1 DEF Weighed
  <2>3. CASE i = 2 * n + 2
    BY <1>1, <2>1, <2>2, <2>3
  <2>4. CASE i # 2 * n + 2
    <3>1. i \in 1..(2 * n + 1)
      BY <2>4
    <3>2. Weighed(d)[i] = IF i % 2 = 1 THEN d[i] * Base ELSE d[i]
      BY <2>1, <3>1 DEF Weighed
    <3> QED BY <1>1, <2>2, <2>4, <3>1, <3>2
  <2> QED BY <2>3, <2>4
<1> HIDE DEF y
<1>7. Extends(Words(b), Words(c), y) /\ Extends(Weighed(b), Weighed(d), z)
  BY <1>4, <1>5, <1>6 DEF Extends
<1>8. Words(b) = Append(Words(c), y) /\ Weighed(b) = Append(Weighed(d), z)
  BY <1>2, <1>4, <1>7, ExtendsIsAppend
<1> QED BY <1>8 DEF b, d, y

LEMMA WordsWeighTheSame == \A b \in Seq(Nat) : Total(Words(b)) = Total(Weighed(b))
<1> DEFINE Same(b) == Total(Words(b)) = Total(Weighed(b))
           S == {n \in Nat : \A b \in Seq(Nat) : Len(b) = 2 * n => Same(b)}
<1>0. Base \in Nat
  BY BaseFacts
<1>1. 0 \in S
  <2> SUFFICES ASSUME NEW b \in Seq(Nat), Len(b) = 0 PROVE Same(b)
    OBVIOUS
  <2>1. (Len(b) + 1) \div 2 = 0
    OBVIOUS
  <2>2. Len(Words(b)) = 0 /\ Len(Weighed(b)) = 0
    BY <2>1, AreSequences
  <2>3. Words(b) = <<>> /\ Weighed(b) = <<>>
    BY <2>2, AreSequences
  <2> QED BY <2>3
<1>2. ASSUME NEW n \in Nat, n \in S PROVE n + 1 \in S
  <2> SUFFICES ASSUME NEW b \in Seq(Nat), Len(b) = 2 * (n + 1) PROVE Same(b)
    OBVIOUS
  <2>1. PICK d \in Seq(Nat), z \in Nat : Len(d) = 2 * n + 1 /\ b = Append(d, z)
    <3> DEFINE k == 2 * n + 1
    <3>1. k \in Nat /\ Len(b) = k + 1
      OBVIOUS
    <3> HIDE DEF k
    <3>2. \E d \in Seq(Nat), z \in Nat : Len(d) = k /\ b = Append(d, z)
      BY <3>1, LastApart
    <3> QED BY <3>2 DEF k
  <2>2. PICK c \in Seq(Nat), x \in Nat : Len(c) = 2 * n /\ d = Append(c, x)
    <3> DEFINE k == 2 * n
    <3>1. k \in Nat /\ Len(d) = k + 1
      BY <2>1
    <3> HIDE DEF k
    <3>2. \E c \in Seq(Nat), x \in Nat : Len(c) = k /\ d = Append(c, x)
      BY <3>1, LastApart
    <3> QED BY <3>2 DEF k
  <2>3. /\ Words(b) = Append(Words(c), x * Base + z)
        /\ Weighed(b) = Append(Append(Weighed(c), x * Base), z)
    <3>1. Weighed(Append(c, x)) = Append(Weighed(c), x * Base)
      BY <2>2, WordOfOne
    <3>2. /\ Words(Append(Append(c, x), z)) = Append(Words(c), x * Base + z)
          /\ Weighed(Append(Append(c, x), z)) = Append(Weighed(Append(c, x)), z)
      BY <2>2, WordOfTwo
    <3> QED BY <2>1, <2>2, <3>1, <3>2
  <2>4. /\ x * Base \in Nat /\ x * Base + z \in Nat
        /\ Words(c) \in Seq(Nat) /\ Weighed(c) \in Seq(Nat)
        /\ Append(Weighed(c), x * Base) \in Seq(Nat)
    <3>1. x * Base \in Nat /\ x * Base + z \in Nat
      <4> DEFINE y == x * Base
      <4>1. y \in Nat
        BY WeightIsNat
      <4> HIDE DEF y
      <4>2. y + z \in Nat
        BY <4>1
      <4> QED BY <4>1, <4>2 DEF y
    <3>2. Words(c) \in Seq(Nat) /\ Weighed(c) \in Seq(Nat)
      BY AreSequences
    <3> DEFINE y == x * Base
    <3> HIDE DEF y
    <3>3. Append(Weighed(c), y) \in Seq(Nat)
      BY <3>1, <3>2 DEF y
    <3> QED BY <3>1, <3>2, <3>3 DEF y
  <2>5. Same(c)
    BY <1>2, <2>2
  <2> DEFINE y == x * Base
  <2> HIDE DEF y
  <2>6. Total(Words(b)) = Total(Words(c)) + (y + z)
    BY <2>3, <2>4, TotalAppend DEF y
  <2>7. Total(Weighed(b)) = (Total(Weighed(c)) + y) + z
    BY <2>3, <2>4, TotalAppend DEF y
  <2>8. Total(Words(c)) \in Nat /\ y \in Nat
    BY <2>4, TotalIsNat DEF y
  <2> QED BY <2>5, <2>6, <2>7, <2>8
<1>3. ASSUME NEW n \in Nat, n \in S, NEW b \in Seq(Nat), Len(b) = 2 * n + 1
      PROVE  Same(b)
  <2>1. PICK c \in Seq(Nat), x \in Nat : Len(c) = 2 * n /\ b = Append(c, x)
    <3> DEFINE k == 2 * n
    <3>1. k \in Nat /\ Len(b) = k + 1
      BY <1>3
    <3> HIDE DEF k
    <3>2. \E c \in Seq(Nat), x \in Nat : Len(c) = k /\ b = Append(c, x)
      BY <3>1, LastApart
    <3> QED BY <3>2 DEF k
  <2>2. /\ Words(b) = Append(Words(c), x * Base)
        /\ Weighed(b) = Append(Weighed(c), x * Base)
    BY <2>1, WordOfOne
  <2>3. x * Base \in Nat /\ Words(c) \in Seq(Nat) /\ Weighed(c) \in Seq(Nat)
    BY <1>0, AreSequences
  <2>4. Same(c)
    BY <1>3, <2>1
  <2> QED BY <2>2, <2>3, <2>4, TotalAppend
<1> HIDE DEF S
<1>4. \A n \in Nat : n \in S
  BY <1>1, <1>2, Inductive
<1> SUFFICES ASSUME NEW b \in Seq(Nat) PROVE Same(b)
  OBVIOUS
<1>5. PICK n \in Nat : Len(b) = 2 * n \/ Len(b) = 2 * n + 1
  <2>1. Len(b) \div 2 \in Nat /\ (Len(b) = 2 * (Len(b) \div 2) \/ Len(b) = 2 * (Len(b) \div 2) + 1)
    OBVIOUS
  <2> QED BY <2>1
<1>6. n \in S
  BY <1>4
<1>7. CASE Len(b) = 2 * n
  BY <1>6, <1>7 DEF S
<1> QED BY <1>3, <1>5, <1>6, <1>7
-----------------------------------------------------------------------------
(* A checksum over header and data passes the check over them.             *)
LEMMA ChecksumPasses ==
  ASSUME NEW words \in Seq(Nat), NEW header \in Seq(Nat), NEW bytes \in Seq(Nat),
         Total(words) = Total(header) + Total(Words(bytes))
  PROVE  Verifies(internet_checksum(words), header, bytes)
<1> DEFINE d == Base * Base
           n == Total(words)
           w == Folded(n)
           x == Ones - w
           c == internet_checksum(words)
           weight == Total(Weighed(bytes))
           all == c + Total(header) + weight
<1>1. Ones \in Nat \ {0} /\ Word = 0..Ones /\ d = Ones + 1 /\ d \in Nat \ {0}
  BY OnesFacts
<1>2. n \in Nat /\ Total(header) \in Nat /\ weight \in Nat
  BY TotalIsNat, AreSequences
<1>3. n = Total(header) + weight
  BY WordsWeighTheSame
<1>4. w \in Word /\ Congruent(n, w)
  BY <1>2, FoldedIs
<1>5. c = x % d
  BY DEF internet_checksum, Ones
<1>6. Verifies(c, header, bytes) <=> all % Ones = 0
  BY DEF Verifies, Weighed, Ones
<1> HIDE DEF d, n, w, c, weight
<1>7. PICK q \in Nat : n = w + q * Ones
  BY <1>4 DEF Congruent
<1>8. w \in Nat /\ x \in 0..(d - 1) /\ x \in Nat
  BY <1>1, <1>4
<1>9. c = x
  <2> DEFINE r == x % d
             p == x \div d
  <2> HIDE DEF x
  <2>1. r \in 0..(d - 1) /\ p \in Nat /\ x = d * p + r
    BY <1>1, <1>8, Division
  <2> HIDE DEF r, p
  <2>2. x + 0 * d = r + p * d
    BY <1>1, <1>8, <2>1
  <2>3. x \in Int /\ r \in Int /\ x - r < d /\ r - x < d
    BY <1>1, <1>8, <2>1
  <2>4. x = r
    BY <1>1, <2>1, <2>2, <2>3, OneRemainder
  <2> QED BY <1>5, <2>4 DEF r
<1>10. all = Ones + q * Ones
  <2> DEFINE m == q * Ones
  <2>1. m \in Nat
    BY <1>1
  <2>2. n = w + m
    BY <1>7
  <2> HIDE DEF m
  <2>3. all = Ones + m
    <3> DEFINE h == Total(header)
    <3>1. h \in Nat /\ h + weight = w + m
      BY <1>2, <1>3, <2>2
    <3>2. all = (Ones - w) + h + weight
      BY <1>9
    <3> HIDE DEF h, all
    <3> QED BY <1>1, <1>2, <1>8, <2>1, <3>1, <3>2
  <2> QED BY <2>3 DEF m
<1>11. Ones + q * Ones = (q + 1) * Ones /\ q + 1 \in Nat
  BY <1>1
<1>12. ((q + 1) * Ones) % Ones = 0
  BY <1>1, <1>11, MultiplesVanish
<1> HIDE DEF all
<1>13. all % Ones = 0
  BY <1>10, <1>11, <1>12
<1> QED BY <1>6, <1>13 DEF c

(* Both checks of PacketsVerify, for one frame's data.                     *)
PacketVerifies(packet) ==
  LET segment == packet.segment
      protocol == packet.header[3] - 4 * Base
      pseudo == IF protocol = ICMP THEN <<>>
                ELSE <<packet.header[4], packet.header[5], protocol,
                       packet.header[2] - 20>>
  IN  /\ Verifies(packet.checksum, packet.header, <<>>)
      /\ Verifies(segment.checksum, segment.header \o pseudo, segment.data)

LEMMA NoWords == Words(<<>>) = <<>> /\ Total(Words(<<>>)) = 0
<1>1. <<>> \in Seq(Nat) /\ Len(<<>>) = 0 /\ (0 + 1) \div 2 = 0
  OBVIOUS
<1>2. Words(<<>>) \in Seq(Nat) /\ Len(Words(<<>>)) = 0
  BY <1>1, AreSequences
<1>3. Words(<<>>) = <<>>
  BY <1>2
<1> QED BY <1>3, TotalNothing

HeaderIs(header, protocol, ip, size) ==
  /\ Verifies(internet_checksum(header), header, <<>>)
  /\ header[2] - 20 = size /\ header[3] - 4 * Base = protocol
  /\ header[4] = Own /\ header[5] = ip

LEMMA HeaderPasses ==
  ASSUME NEW protocol \in Nat, NEW ip \in Nat, NEW size \in Nat
  PROVE  HeaderIs(Ipv4Header(protocol, ip, size), protocol, ip, size)
<1> DEFINE header == Ipv4Header(protocol, ip, size)
<1>1. Base \in Nat /\ Own \in Nat
  BY BaseFacts, LayersAssumption DEF Word
<1>2. /\ 5 * Base \in Nat /\ 20 + size \in Nat /\ 4 * Base + protocol \in Nat
      /\ (20 + size) - 20 = size /\ (4 * Base + protocol) - 4 * Base = protocol
  BY <1>1
<1>3. header = <<5 * Base, 20 + size, 4 * Base + protocol, Own, ip>>
  BY DEF Ipv4Header
<1>4. header \in Seq(Nat)
  BY <1>1, <1>2, <1>3
<1>5. /\ header[2] = 20 + size /\ header[3] = 4 * Base + protocol
      /\ header[4] = Own /\ header[5] = ip
  BY <1>3
<1> HIDE DEF header
<1>6. Total(header) = Total(header) + Total(Words(<<>>))
  BY <1>4, NoWords, TotalIsNat
<1>7. <<>> \in Seq(Nat)
  OBVIOUS
<1>8. Verifies(internet_checksum(header), header, <<>>)
  BY <1>4, <1>6, <1>7, ChecksumPasses
<1>9. HeaderIs(header, protocol, ip, size)
  BY <1>2, <1>5, <1>8 DEF HeaderIs
<1> QED BY <1>9 DEF header

LEMMA EchoVerifies ==
  ASSUME NEW mac, NEW ip \in Nat, NEW type \in Nat, NEW rest \in Nat, NEW bytes \in Seq(Nat)
  PROVE  PacketVerifies(Icmp4(mac, ip, type, rest, bytes).data)
<1> DEFINE header == <<type * Base, rest>>
           size == 8 + Len(bytes)
           words == header \o Words(bytes)
           sum == internet_checksum(words)
           packet == Icmp4(mac, ip, type, rest, bytes).data
           top == Ipv4Header(ICMP, ip, size)
<1>1. type * Base \in Nat /\ size \in Nat /\ ICMP \in Nat
  BY WeightIsNat DEF ICMP
<1>2. header \in Seq(Nat) /\ Words(bytes) \in Seq(Nat) /\ words \in Seq(Nat)
  BY <1>1, AreSequences
<1>3. /\ packet.header = top /\ packet.checksum = internet_checksum(top)
      /\ packet.segment.header = header /\ packet.segment.data = bytes
      /\ packet.segment.checksum = sum
  BY DEF Icmp4, Ipv4, Ethernet
<1>4. Total(words) = Total(header) + Total(Words(bytes))
  BY <1>2, TotalConcat
<1>5. header \o <<>> = header
  OBVIOUS
<1> HIDE DEF header, size, words, packet
<1>6. Verifies(sum, header, bytes)
  BY <1>2, <1>4, ChecksumPasses
<1>7. Verifies(internet_checksum(top), top, <<>>) /\ top[3] - 4 * Base = ICMP
  BY <1>1, HeaderPasses DEF HeaderIs
<1> HIDE DEF top, sum
<1>8. PacketVerifies(packet)
  BY <1>3, <1>5, <1>6, <1>7 DEF PacketVerifies
<1> QED BY <1>8 DEF packet

LEMMA SegmentVerifies ==
  ASSUME NEW mac, NEW ip \in Nat, NEW protocol \in {UDP, TCP}, NEW header \in Seq(Nat),
         NEW size \in Nat, NEW bytes \in Seq(Nat)
  PROVE  PacketVerifies(Ipv4(mac, ip, protocol,
                             Segment(ip, protocol, header, size, bytes)).data)
<1> DEFINE pseudo == Pseudo(ip, protocol, size)
           both == header \o pseudo
           words == both \o Words(bytes)
           sum == internet_checksum(words)
           packet == Ipv4(mac, ip, protocol, Segment(ip, protocol, header, size, bytes)).data
           top == Ipv4Header(protocol, ip, size)
<1>1. protocol \in Nat /\ protocol # ICMP /\ Own \in Nat
  BY BaseFacts, LayersAssumption DEF Word, UDP, TCP, ICMP
<1>2. pseudo = <<Own, ip, protocol, size>>
  BY DEF Pseudo
<1>3. pseudo \in Seq(Nat)
  BY <1>1, <1>2
<1>4. /\ packet.header = top /\ packet.checksum = internet_checksum(top)
      /\ packet.segment.header = header /\ packet.segment.data = bytes
      /\ packet.segment.checksum = sum
  BY DEF Ipv4, Segment, Ethernet
<1> HIDE DEF pseudo, packet
<1>5. both \in Seq(Nat) /\ Words(bytes) \in Seq(Nat) /\ words \in Seq(Nat)
  BY <1>3, AreSequences
<1>6. Total(words) = Total(both) + Total(Words(bytes))
  BY <1>5, TotalConcat
<1> HIDE DEF both, words
<1>7. Verifies(sum, both, bytes)
  BY <1>5, <1>6, ChecksumPasses
<1>8. /\ Verifies(internet_checksum(top), top, <<>>) /\ top[3] - 4 * Base = protocol
      /\ top[2] - 20 = size /\ top[4] = Own /\ top[5] = ip
  <2>1. protocol \in Nat
    BY <1>1
  <2> HIDE DEF sum
  <2>2. HeaderIs(top, protocol, ip, size)
    BY <2>1, HeaderPasses
  <2> HIDE DEF top
  <2> QED BY <2>2 DEF HeaderIs
<1> HIDE DEF top, sum
<1>9. header \o <<packet.header[4], packet.header[5], protocol, packet.header[2] - 20>> = both
  BY <1>2, <1>4, <1>8 DEF both
<1>10. PacketVerifies(packet)
  BY <1>1, <1>4, <1>7, <1>8, <1>9 DEF PacketVerifies
<1> QED BY <1>10 DEF packet

-----------------------------------------------------------------------------
(* What each operation sends.                                              *)
Answers == PacketsVerify /\ AskerIsAnswered

LEMMA NothingSent == out = <<>> => PacketsVerify
BY DEF PacketsVerify

LEMMA OneSent ==
  ASSUME NEW frame, out' = <<frame>>,
         frame.type = "IPv4" => PacketVerifies(frame.data)
  PROVE  PacketsVerify'
<1>1. DOMAIN out' = {1} /\ out'[1] = frame
  OBVIOUS
<1> QED BY <1>1 DEF PacketsVerify, PacketVerifies

LEMMA MoreValues ==
  ASSUME NEW S, NEW T, S \subseteq T, NEW s \in Seq(S)
  PROVE  s \in Seq(T)
OBVIOUS

LEMMA BytesAreNumbers ==
  /\ \A d \in Payloads : d \in Seq(Nat) /\ Padded(d) \in Seq(Nat) /\ Len(d) <= Len(Padded(d))
  /\ Ips \subseteq Nat /\ Rests \subseteq Nat /\ Own \in Nat
<1>1. ASSUME NEW d \in Payloads
      PROVE  d \in Seq(Nat) /\ Padded(d) \in Seq(Nat) /\ Len(d) <= Len(Padded(d))
  <2>1. d \in Seq(0..(Base - 1))
    BY LayersAssumption
  <2> DEFINE S == 0..(Base - 1)
  <2>2. d \in Seq(S) /\ S \subseteq Nat
    BY <2>1, BaseFacts
  <2> HIDE DEF S
  <2>3. d \in Seq(Nat)
    BY <2>2, MoreValues
  <2>4. d \o <<0>> \in Seq(Nat) /\ Len(d) <= Len(d \o <<0>>)
    BY <2>3
  <2> QED BY <2>3, <2>4 DEF Padded
<1>2. Word \subseteq Nat
  BY BaseFacts DEF Word
<1> QED BY <1>1, <1>2, LayersAssumption

LEMMA ArpAnswered ==
  ASSUME NEW f \in ArpFrames, RecvEthernetFrame(f)
  PROVE  Answers'
<1>1. f.ether_type = "ARP"
  BY DEF ArpFrames
<1>2. asked' = f /\ RecvArp(f)
  BY <1>1 DEF RecvEthernetFrame
<1>3. CASE ForUs(f)
  <2>1. out' = <<ArpReply(f)>>
    BY <1>2, <1>3 DEF RecvArp, ForUs
  <2>2. ArpReply(f).type = "ARP"
    BY DEF ArpReply, Ethernet
  <2>3. PacketsVerify'
    BY <2>1, <2>2, OneSent
  <2>4. /\ Len(out') = 1 /\ out'[1].dest = f.sha
        /\ out'[1].data.spa = Own /\ out'[1].data.sha = OwnMac
        /\ out'[1].data.tha = f.sha /\ out'[1].data.tpa = f.spa
    BY <1>3, <2>1 DEF ArpReply, Ethernet, ForUs
  <2> QED BY <1>1, <1>2, <1>3, <2>3, <2>4 DEF Answers, AskerIsAnswered, ForUs
<1>4. CASE ~ForUs(f)
  <2>1. out' = <<>>
    BY <1>2, <1>4 DEF RecvArp
  <2>2. PacketsVerify'
    BY <2>1 DEF PacketsVerify
  <2> QED BY <1>1, <1>2, <1>4, <2>1, <2>2 DEF Answers, AskerIsAnswered, ForUs
<1> QED BY <1>3, <1>4

LEMMA EchoAnswered ==
  ASSUME NEW f \in IcmpFrames, RecvEthernetFrame(f)
  PROVE  Answers'
<1>1. PICK m \in Macs, a \in Ips, t \in {EchoRequest, EchoReply}, r \in Rests, d \in Payloads :
        f = [ether_type |-> "IPv4", source |-> m, ip |-> a, protocol |-> ICMP, type |-> t,
             rest |-> r, total_length |-> 20 + 8 + Len(d), data |-> Padded(d)]
  BY DEF IcmpFrames
<1>2. /\ f.ether_type = "IPv4" /\ f.source = m /\ f.ip = a /\ f.protocol = ICMP
      /\ f.type = t /\ f.rest = r /\ f.total_length = 20 + 8 + Len(d) /\ f.data = Padded(d)
  BY <1>1
<1> HIDE <1>1
<1>3. asked' = f /\ RecvIcmp4(f, Unpadded(f))
  <2>1. asked' = f /\ RecvIpv4(f)
    BY <1>2 DEF RecvEthernetFrame
  <2> QED BY <1>2, <2>1 DEF RecvIpv4, ICMP, UDP, TCP
<1> DEFINE bytes == Unpadded(f)
<1>4. d \in Seq(Nat) /\ f.data \in Seq(Nat) /\ Len(d) <= Len(f.data) /\ Len(d) \in Nat
  BY <1>2, BytesAreNumbers
<1>5. bytes = SubSeq(f.data, 1, Len(d)) /\ f.total_length - 28 = Len(d)
  <2>1. f.total_length - 20 - 8 = Len(d) /\ f.total_length - 28 = Len(d)
    BY <1>2, <1>4
  <2> QED BY <2>1 DEF Unpadded
<1>6. bytes \in Seq(Nat) /\ Len(bytes) = Len(d)
  BY <1>4, <1>5
<1>7. IsPrefix(bytes, f.data)
  <2>1. SubSeq(bytes, 1, Len(d)) = bytes
    BY <1>4, <1>6
  <2> QED BY <1>4, <1>5, <1>6, <2>1 DEF IsPrefix
<1> HIDE DEF bytes
<1>8. CASE t = EchoRequest
  <2> DEFINE reply == Icmp4(f.source, f.ip, EchoReply, f.rest, bytes)
  <2>1. out' = <<reply>>
    BY <1>2, <1>3, <1>8 DEF RecvIcmp4, bytes
  <2>2. /\ reply.dest = f.source /\ reply.data.segment.header = <<EchoReply * Base, f.rest>>
        /\ reply.data.segment.data = bytes
    BY DEF Icmp4, Ipv4, Ethernet
  <2>3. reply.data.header[5] = f.ip
    BY DEF Icmp4, Ipv4, Ethernet, Ipv4Header
  <2>4. PacketVerifies(reply.data)
    <3>1. f.ip \in Nat /\ f.rest \in Nat /\ EchoReply \in Nat
      BY <1>2, BytesAreNumbers DEF EchoReply
    <3> QED BY <1>6, <3>1, EchoVerifies
  <2> HIDE DEF reply
  <2>5. PacketsVerify'
    BY <2>1, <2>4, OneSent
  <2>6. Len(out') = 1 /\ out'[1] = reply
    BY <2>1
  <2>7. AskerIsAnswered'
    BY <1>2, <1>3, <1>5, <1>6, <1>7, <1>8, <2>2, <2>3, <2>6 DEF AskerIsAnswered
  <2> QED BY <2>5, <2>7 DEF Answers
<1>9. CASE t # EchoRequest
  <2>1. out' = <<>>
    BY <1>2, <1>3, <1>9 DEF RecvIcmp4
  <2>2. PacketsVerify'
    BY <2>1 DEF PacketsVerify
  <2> QED BY <1>2, <1>3, <1>9, <2>1, <2>2 DEF Answers, AskerIsAnswered
<1> QED BY <1>8, <1>9

LEMMA OthersUnanswered ==
  ASSUME NEW f \in OtherFrames, RecvEthernetFrame(f)
  PROVE  Answers'
<1>1. /\ f.ether_type \in {"IPv4", "other"}
      /\ f.ether_type = "IPv4" => f.protocol \in {UDP, TCP, 2}
  BY DEF OtherFrames
<1>2. asked' = f /\ out' = <<>>
  BY <1>1 DEF RecvEthernetFrame, RecvIpv4, ICMP, UDP, TCP
<1>3. PacketsVerify'
  BY <1>2 DEF PacketsVerify
<1> QED BY <1>1, <1>2, <1>3 DEF Answers, AskerIsAnswered, ICMP, UDP, TCP

LEMMA SentVerifies ==
  ASSUME NEW mac \in Macs, NEW ip \in Ips, NEW protocol \in {UDP, TCP}, NEW word \in Rests,
         NEW bytes \in Payloads, Send(mac, ip, protocol, word, bytes)
  PROVE  Answers'
<1> DEFINE header == IF protocol = UDP THEN <<word, 8 + Len(bytes)>> ELSE <<word>>
           size == IF protocol = UDP THEN 8 + Len(bytes) ELSE 20 + Len(bytes)
           frame == Ipv4(mac, ip, protocol, Segment(ip, protocol, header, size, bytes))
<1>1. out' = <<frame>>
  <2>1. UDP # TCP
    BY DEF UDP, TCP
  <2>2. CASE protocol = UDP
    BY <2>2 DEF Send, UdpSegment
  <2>3. CASE protocol # UDP
    <3>1. protocol = TCP
      BY <2>3
    <3> QED BY <2>1, <3>1 DEF Send, TcpSegment
  <2> QED BY <2>2, <2>3
<1>2. bytes \in Seq(Nat) /\ ip \in Nat /\ word \in Nat /\ Len(bytes) \in Nat
  BY BytesAreNumbers
<1>3. size \in Nat
  BY <1>2
<1>4. header \in Seq(Nat)
  BY <1>2
<1> HIDE DEF header, size
<1>5. PacketVerifies(frame.data)
  BY <1>2, <1>3, <1>4, SegmentVerifies
<1> HIDE DEF frame
<1>6. PacketsVerify'
  BY <1>1, <1>5, OneSent
<1>7. asked'.ether_type = "send"
  BY DEF Send
<1> QED BY <1>6, <1>7 DEF Answers, AskerIsAnswered

LEMMA AnswersStep == Answers /\ [LayersNext]_layers => Answers'
<1> SUFFICES ASSUME Answers, [LayersNext]_layers PROVE Answers'
  OBVIOUS
<1>1. CASE UNCHANGED layers
  BY <1>1 DEF layers, Answers, PacketsVerify, AskerIsAnswered
<1>2. CASE LayersNext
  BY <1>2, ArpAnswered, EchoAnswered, OthersUnanswered, SentVerifies DEF LayersNext
<1> QED BY <1>1, <1>2

(* Whatever is sent passes its receiver's checks, and who asks is answered *)
(* once with what it asked for.                                            *)
THEOREM AnswersAreAccepted == LayersSpec => []AnswersVerify
<1>1. LayersInit => Answers
  BY DEF LayersInit, Answers, PacketsVerify, AskerIsAnswered
<1>2. Answers => AnswersVerify
  BY DEF Answers, AnswersVerify
<1> QED BY <1>1, <1>2, AnswersStep, PTL DEF LayersSpec
=============================================================================

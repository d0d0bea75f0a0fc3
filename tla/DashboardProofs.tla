-------------------------- MODULE DashboardProofs --------------------------
(***************************************************************************)
(* Proofs about the configuration store of DashboardApp, and about the     *)
(* application around it: the whole keeps what the store alone keeps, and  *)
(* leaves no interval behind, for any number of configs, writes and syncs. *)
(***************************************************************************)
EXTENDS Dashboard, TLAPS

(***************************************************************************)
(* The store: the inductive invariant                                      *)
(***************************************************************************)
\* A write is known by its stamp, and two of one row dispute it.
WritesApart ==
    /\ \A w \in writes : w.stamp <= written
    /\ \A v, w \in writes : v.stamp = w.stamp => v = w
    /\ \A v, w \in writes : v # w /\ v.row = w.row => w.row \in disputed

\* The server gives a new row an id that no row has or had.
CreatesFresh ==
    /\ \A r \in Rows : table[r] # Absent => r \in used
    /\ \A w \in writes : w.kind = "create" => w.row \in used
    /\ \A v, w \in writes :
         v.kind = "create" /\ w.kind = "create" /\ v.row = w.row => v = w
    /\ \A w \in writes :
         w.kind = "create" /\ w.at = "sent" => table[w.row] = Absent

\* What the server read for a load is still so, but for the dirty rows.
LoadsFresh ==
    \A l \in loads :
        /\ Writing \subseteq l.dirty
        /\ l.at = "read" => \A r \in Rows \ l.dirty : l.rows[r] = table[r]

\* The list is one local change behind for a row whose write was applied.
Behind(r, cs) ==
    /\ (\A w \in writes : w.row = r => w.at # "applied") => cs = CopiesOf(table[r])
    /\ \A w \in writes :
         w.row = r /\ w.at = "applied" => Locally(w, cs) = CopiesOf(table[r])

ListFollows ==
    status = "success" => \A r \in Rows \ disputed : Behind(r, copies[r])

IInv == TypeOK /\ WritesApart /\ CreatesFresh /\ LoadsFresh /\ ListFollows

(***************************************************************************)
(* Types                                                                   *)
(***************************************************************************)
LEMMA LocalType ==
    ASSUME NEW w \in Write, NEW cs \in Seq(Contents)
    PROVE  Locally(w, cs) \in Seq(Contents)
<1>1. w.stamp \in Contents
  BY ConstantsAssumption DEF Write, Contents
<1>2. CASE w.kind = "create"
  BY <1>1, <1>2 DEF Locally
<1>3. CASE w.kind = "update"
  <2>1. PICK n \in Nat : DOMAIN cs = 1 .. n
    OBVIOUS
  <2>2. [i \in 1 .. n |-> w.stamp] \in Seq(Contents)
    BY <1>1
  <2> QED BY <1>3, <2>1, <2>2 DEF Locally
<1>4. CASE w.kind = "delete"
  BY <1>4 DEF Locally
<1> QED BY <1>2, <1>3, <1>4 DEF Write, Kinds

LEMMA RemoteType ==
    ASSUME NEW w \in Write, NEW c \in Contents \cup {Absent}
    PROVE  Remotely(w, c) \in Contents \cup {Absent}
BY ConstantsAssumption DEF Write, Kinds, Contents, Remotely

LEMMA ListType ==
    ASSUME NEW f \in [Rows -> Contents \cup {Absent}]
    PROVE  [r \in Rows |-> CopiesOf(f[r])] \in [Rows -> Seq(Contents)]
BY DEF CopiesOf

\* What a send adds is a write, and the loads stay loads.
LEMMA SendType ==
    ASSUME TypeOK, NEW k \in Kinds, NEW r \in Rows, SendWrite(k, r)
    PROVE  /\ writes' \in SUBSET Write
           /\ loads' \in SUBSET Load
           /\ written' \in 0 .. MaxWrites
           /\ disputed' \in SUBSET Rows
<1>1. written \in Nat /\ written + 1 \in 1 .. MaxWrites
  BY ConstantsAssumption DEF TypeOK, SendWrite
<1>2. writes' \in SUBSET Write
  <2> DEFINE sent == [stamp |-> written + 1, kind |-> k, row |-> r,
                      at |-> "sent", heard |-> TRUE]
  <2>1. sent \in Write
    BY <1>1 DEF Write
  <2>2. writes' = writes \cup {sent}
    BY DEF SendWrite
  <2> QED BY <2>1, <2>2 DEF TypeOK
<1>3. \A l \in Load : [l EXCEPT !.dirty = @ \cup {r}] \in Load
  BY DEF Load
<1>4. loads' \in SUBSET Load
  BY <1>3 DEF TypeOK, SendWrite
<1>5. disputed' \in SUBSET Rows
  BY DEF TypeOK, SendWrite
<1>6. written' \in 0 .. MaxWrites
  BY <1>1, ConstantsAssumption DEF SendWrite
<1> QED BY <1>2, <1>4, <1>5, <1>6

LEMMA TypeInit == Init => TypeOK
BY ConstantsAssumption DEF Init, TypeOK, NoCopies, Contents

LEMMA TypeStep == TypeOK /\ [Next]_vars => TypeOK'
<1> SUFFICES ASSUME TypeOK, [Next]_vars PROVE TypeOK'
  OBVIOUS
<1>1. ASSUME NEW r \in Rows,
             createRemoteConfig(r) \/ updateRemoteConfig(r) \/ deleteRemoteConfigs(r)
      PROVE  TypeOK'
  <2>1. PICK k \in Kinds : SendWrite(k, r)
    BY <1>1 DEF createRemoteConfig, updateRemoteConfig, deleteRemoteConfigs, Kinds
  <2>2. used' \in SUBSET Rows
    BY <1>1 DEF TypeOK, createRemoteConfig, updateRemoteConfig, deleteRemoteConfigs
  <2>3. UNCHANGED <<table, status, copies, loaded>>
    BY <2>1 DEF SendWrite
  <2> QED BY <2>1, <2>2, <2>3, SendType DEF TypeOK
<1>2. ASSUME NEW w \in writes, WriteStep(w) PROVE TypeOK'
  <2>1. /\ w \in Write /\ w.row \in Rows
        /\ [w EXCEPT !.at = "applied"] \in Write
        /\ [w EXCEPT !.at = "refused"] \in Write
        /\ [w EXCEPT !.heard = FALSE] \in Write
    BY DEF TypeOK, Write
  <2>2. CASE ServerApplies(w)
    <3>1. Remotely(w, table[w.row]) \in Contents \cup {Absent}
      BY <2>1, RemoteType DEF TypeOK
    <3> QED BY <2>1, <2>2, <3>1 DEF ServerApplies, TypeOK, configs
  <2>3. CASE ServerRefuses(w)
    BY <2>1, <2>3 DEF ServerRefuses, TypeOK, server, configs
  <2>4. CASE WriteOK(w)
    <3>1. Locally(w, copies[w.row]) \in Seq(Contents)
      BY <2>1, LocalType DEF TypeOK
    <3>2. copies' \in [Rows -> Seq(Contents)]
      BY <2>4, <3>1 DEF WriteOK, TypeOK
    <3> QED BY <2>4, <3>2 DEF WriteOK, TypeOK, server
  <2>5. CASE WriteThrows(w)
    BY <2>1, <2>5 DEF WriteThrows, TypeOK, server, configs
  <2>6. CASE WriteRefused(w)
    BY <2>6 DEF WriteRefused, TypeOK, server, NoCopies
  <2>7. CASE WriteHttpError(w)
    BY <2>1, <2>7 DEF WriteHttpError, TypeOK, server, configs
  <2> QED BY <1>2, <2>2, <2>3, <2>4, <2>5, <2>6, <2>7 DEF WriteStep
<1>3. CASE loadRemoteConfigs
  <2>1. /\ loaded' \in 0 .. MaxLoads
        /\ loaded + 1 \in 1 .. MaxLoads
    BY <1>3, ConstantsAssumption DEF loadRemoteConfigs, TypeOK
  <2>2. Writing \in SUBSET Rows
    BY DEF TypeOK, Write, Writing
  <2>3. [no |-> loaded + 1, at |-> "sent", rows |-> NoRows, dirty |-> Writing] \in Load
    BY <2>1, <2>2 DEF Load, NoRows
  <2> QED BY <1>3, <2>1, <2>3 DEF loadRemoteConfigs, TypeOK, server, NoCopies
<1>4. ASSUME NEW l \in loads, LoadStep(l) PROVE TypeOK'
  <2>1. l \in Load
    BY DEF TypeOK
  <2>2. CASE ServerReads(l)
    <3>1. [l EXCEPT !.at = "read", !.rows = table] \in Load
      BY <2>1 DEF Load, TypeOK
    <3> QED BY <2>2, <3>1 DEF ServerReads, TypeOK, server, configs
  <2>3. CASE ServerRefusesLoad(l)
    <3>1. [l EXCEPT !.at = "refused"] \in Load
      BY <2>1 DEF Load
    <3> QED BY <2>3, <3>1 DEF ServerRefusesLoad, TypeOK, server, configs
  <2>4. CASE LoadOK(l)
    <3>1. l.rows \in [Rows -> Contents \cup {Absent}] /\ l.dirty \in SUBSET Rows
      BY <2>1 DEF Load
    <3>2. copies' \in [Rows -> Seq(Contents)]
      BY <2>4, <3>1, ListType DEF LoadOK
    <3> QED BY <2>4, <3>1, <3>2 DEF LoadOK, TypeOK, server
  <2>5. CASE LoadRefused(l)
    BY <2>5 DEF LoadRefused, TypeOK, server, NoCopies
  <2>6. CASE LoadHttpError(l)
    BY <2>6 DEF LoadHttpError, TypeOK, server, configs
  <2> QED BY <1>4, <2>2, <2>3, <2>4, <2>5, <2>6 DEF LoadStep
<1>5. CASE UNCHANGED vars
  BY <1>5 DEF vars, server, configs, TypeOK
<1> QED BY <1>1, <1>2, <1>3, <1>4, <1>5 DEF Next

\* Types, for any number of rows, writes and loads (state/global-config).
THEOREM TypeCorrect == Spec => []TypeOK
<1>1. Init => TypeOK
  BY TypeInit
<1>2. TypeOK /\ [Next]_vars => TypeOK'
  BY TypeStep
<1> QED BY <1>1, <1>2, PTL DEF Spec

(***************************************************************************)
(* What the steps have in common                                           *)
(***************************************************************************)
\* The local change undoes what the write put between list and table.
LEMMA LocalChange ==
    ASSUME NEW w \in Write, NEW c \in Contents \cup {Absent},
           w.kind = "create" => c = Absent
    PROVE  Locally(w, CopiesOf(c)) = CopiesOf(Remotely(w, c))
<1>1. w.stamp # Absent
  BY ConstantsAssumption DEF Write
<1>2. CASE w.kind = "create"
  BY <1>1, <1>2 DEF Locally, Remotely, CopiesOf
<1>3. CASE w.kind = "update"
  <2>1. CASE c = Absent
    <3>1. [i \in DOMAIN <<>> |-> w.stamp] = <<>>
      OBVIOUS
    <3> QED BY <1>3, <2>1, <3>1 DEF Locally, Remotely, CopiesOf
  <2>2. CASE c # Absent
    <3>1. [i \in DOMAIN <<c>> |-> w.stamp] = <<w.stamp>>
      OBVIOUS
    <3> QED BY <1>1, <1>3, <2>2, <3>1 DEF Locally, Remotely, CopiesOf
  <2> QED BY <2>1, <2>2
<1>4. CASE w.kind = "delete"
  BY <1>4 DEF Locally, Remotely, CopiesOf
<1> QED BY <1>2, <1>3, <1>4 DEF Write, Kinds

LEMMA SendShape ==
    ASSUME TypeOK, NEW k \in Kinds, NEW r \in Rows, SendWrite(k, r)
    PROVE  /\ \E n \in Write :
                /\ n.stamp = written + 1 /\ n.kind = k /\ n.row = r
                /\ n.at = "sent" /\ writes' = writes \cup {n}
           /\ \A m \in loads' : \E l \in loads :
                /\ m.at = l.at /\ m.rows = l.rows
                /\ m.dirty = l.dirty \cup {r}
           /\ written' = written + 1
           /\ disputed' = disputed \cup (Writing \cap {r})
           /\ UNCHANGED <<table, status, copies>>
<1>1. \E n \in Write :
        /\ n.stamp = written + 1 /\ n.kind = k /\ n.row = r
        /\ n.at = "sent" /\ writes' = writes \cup {n}
  <2> DEFINE sent == [stamp |-> written + 1, kind |-> k, row |-> r,
                      at |-> "sent", heard |-> TRUE]
  <2>1. sent \in Write
    <3>1. written + 1 \in 1 .. MaxWrites
      BY ConstantsAssumption DEF TypeOK, SendWrite
    <3> QED BY <3>1 DEF Write
  <2>2. writes' = writes \cup {sent}
    BY DEF SendWrite
  <2> WITNESS sent \in Write
  <2> QED BY <2>2
<1>2. ASSUME NEW m \in loads'
      PROVE  \E l \in loads : /\ m.at = l.at /\ m.rows = l.rows
                              /\ m.dirty = l.dirty \cup {r}
  <2>1. PICK l \in loads : m = [l EXCEPT !.dirty = @ \cup {r}]
    BY DEF SendWrite
  <2>2. l \in Load
    BY DEF TypeOK
  <2>3. /\ m.at = l.at /\ m.rows = l.rows
        /\ m.dirty = l.dirty \cup {r}
    BY <2>1, <2>2 DEF Load
  <2> QED BY <2>3
<1>3. /\ written' = written + 1
      /\ disputed' = disputed \cup (Writing \cap {r})
      /\ UNCHANGED <<table, status, copies>>
  BY DEF SendWrite
<1> QED BY <1>1, <1>2, <1>3

\* A step of a write leaves the other writes alone and keeps its identity.
LEMMA WriteShape ==
    ASSUME TypeOK, NEW w \in writes, WriteStep(w)
    PROVE  /\ writes \ {w} \subseteq writes'
           /\ \A v \in writes' \ (writes \ {w}) :
                /\ v.stamp = w.stamp /\ v.kind = w.kind /\ v.row = w.row
                /\ v.at = "sent" => w.at = "sent"
                /\ w.at = "applied" => v.at = "applied"
           /\ \A u, v \in writes' \ (writes \ {w}) : u = v
           /\ disputed \subseteq disputed'
           /\ UNCHANGED <<used, written, loads>>
<1>1. w \in Write
  BY DEF TypeOK
<1>2. CASE ServerApplies(w)
  BY <1>1, <1>2 DEF ServerApplies, Write
<1>3. CASE ServerRefuses(w)
  BY <1>1, <1>3 DEF ServerRefuses, Write, server
<1>4. CASE WriteOK(w)
  BY <1>4 DEF WriteOK, server
<1>5. CASE WriteThrows(w)
  BY <1>5 DEF WriteThrows, server
<1>6. CASE WriteRefused(w)
  BY <1>6 DEF WriteRefused, server
<1>7. CASE WriteHttpError(w)
  BY <1>1, <1>7 DEF WriteHttpError, Write, server
<1> QED BY <1>2, <1>3, <1>4, <1>5, <1>6, <1>7 DEF WriteStep

\* Only the server's step touches the table, and only the row of the write.
LEMMA TableStep ==
    ASSUME TypeOK, NEW w \in writes, WriteStep(w)
    PROVE  \/ UNCHANGED table
           \/ /\ ServerApplies(w)
              /\ table' = [table EXCEPT ![w.row] = Remotely(w, @)]
BY DEF WriteStep, ServerApplies, ServerRefuses, WriteOK, WriteThrows,
       WriteRefused, WriteHttpError, server

\* Loads touch neither table nor writes; they may only drop loads, but for
\* the answer the server gives.
LEMMA LoadShape ==
    ASSUME NEW l \in loads, LoadStep(l)
    PROVE  UNCHANGED <<table, used, writes, written>>
BY DEF LoadStep, ServerReads, ServerRefusesLoad, LoadOK, LoadRefused,
       LoadHttpError, server

(***************************************************************************)
(* The invariant is inductive                                              *)
(***************************************************************************)
Sends(r) == createRemoteConfig(r) \/ updateRemoteConfig(r) \/ deleteRemoteConfigs(r)

LEMMA SendsAre ==
    ASSUME NEW r \in Rows, Sends(r)
    PROVE  \E k \in Kinds :
              /\ SendWrite(k, r)
              /\ IF k = "create" THEN r \notin used /\ used' = used \cup {r}
                 ELSE UNCHANGED used
BY DEF Sends, createRemoteConfig, updateRemoteConfig, deleteRemoteConfigs, Kinds

LEMMA ApartStep ==
    ASSUME TypeOK, WritesApart, LoadsFresh, [Next]_vars
    PROVE  WritesApart'
<1>1. ASSUME NEW r \in Rows, Sends(r) PROVE WritesApart'
  <2>1. PICK k \in Kinds : SendWrite(k, r)
    BY <1>1, SendsAre
  <2>2. PICK n \in Write : /\ n.stamp = written + 1 /\ n.row = r
                           /\ writes' = writes \cup {n}
    BY <2>1, SendShape
  <2>3. written' = written + 1 /\ disputed' = disputed \cup (Writing \cap {r})
    BY <2>1, SendShape
  <2>4. written \in Nat /\ \A w \in writes : w.stamp \in Nat
    BY ConstantsAssumption DEF TypeOK, Write
  <2>5. \A w \in writes' : w.stamp <= written'
    BY <2>2, <2>3, <2>4 DEF WritesApart
  <2>6. \A v, w \in writes' : v.stamp = w.stamp => v = w
    BY <2>2, <2>4 DEF WritesApart
  <2>7. ASSUME NEW v \in writes', NEW w \in writes', v # w, v.row = w.row
        PROVE  w.row \in disputed'
    <3>1. CASE v \in writes /\ w \in writes
      BY <2>3, <2>7, <3>1 DEF WritesApart
    <3>2. CASE v = n \/ w = n
      BY <2>2, <2>3, <2>7, <3>2 DEF Writing
    <3> QED BY <2>2, <3>1, <3>2
  <2> QED BY <2>5, <2>6, <2>7 DEF WritesApart
<1>2. ASSUME NEW w \in writes, WriteStep(w) PROVE WritesApart'
  BY <1>2, WriteShape DEF WritesApart
<1>3. ASSUME UNCHANGED <<writes, written>>, disputed \subseteq disputed'
      PROVE  WritesApart'
  BY <1>3 DEF WritesApart
<1>4. CASE loadRemoteConfigs
  BY <1>3, <1>4 DEF loadRemoteConfigs
<1>5. ASSUME NEW l \in loads, LoadStep(l) PROVE WritesApart'
  <2>1. CASE LoadOK(l)
    <3>1. \A w \in writes' : w.row \in disputed'
      BY <2>1 DEF LoadOK, LoadsFresh, Writing
    <3> QED BY <2>1, <3>1 DEF LoadOK, WritesApart
  <2>2. CASE ~LoadOK(l)
    BY <1>3, <1>5, <2>2 DEF LoadStep, ServerReads, ServerRefusesLoad,
       LoadRefused, LoadHttpError
  <2> QED BY <2>1, <2>2
<1>6. CASE UNCHANGED vars
  BY <1>3, <1>6 DEF vars
<1> QED BY <1>1, <1>2, <1>4, <1>5, <1>6 DEF Next, Sends

LEMMA FreshStep ==
    ASSUME TypeOK, CreatesFresh, [Next]_vars
    PROVE  CreatesFresh'
<1>1. ASSUME NEW r \in Rows, Sends(r) PROVE CreatesFresh'
  <2>1. PICK k \in Kinds :
          /\ SendWrite(k, r)
          /\ IF k = "create" THEN r \notin used /\ used' = used \cup {r}
             ELSE UNCHANGED used
    BY <1>1, SendsAre
  <2>2. PICK n \in Write : /\ n.kind = k /\ n.row = r
                           /\ writes' = writes \cup {n}
    BY <2>1, SendShape
  <2>3. UNCHANGED table
    BY <2>1, SendShape
  <2>4. used \subseteq used'
    BY <2>1
  <2>5. \A q \in Rows : table'[q] # Absent => q \in used'
    BY <2>3, <2>4 DEF CreatesFresh
  <2>6. \A w \in writes' : w.kind = "create" => w.row \in used'
    BY <2>1, <2>2, <2>4 DEF CreatesFresh
  <2>7. \A v, w \in writes' :
          v.kind = "create" /\ w.kind = "create" /\ v.row = w.row => v = w
    BY <2>1, <2>2 DEF CreatesFresh
  <2>8. \A w \in writes' :
          w.kind = "create" /\ w.at = "sent" => table'[w.row] = Absent
    BY <2>1, <2>2, <2>3 DEF CreatesFresh
  <2> QED BY <2>5, <2>6, <2>7, <2>8 DEF CreatesFresh
<1>2. ASSUME NEW w \in writes, WriteStep(w) PROVE CreatesFresh'
  <2>1. UNCHANGED used
    BY <1>2, WriteShape
  <2>2. w \in Write /\ w.row \in Rows
    BY DEF TypeOK, Write
  <2>3. \A v \in writes' : v.kind = "create" => v.row \in used'
    BY <1>2, <2>1, WriteShape DEF CreatesFresh
  <2>4. \A u, v \in writes' :
          u.kind = "create" /\ v.kind = "create" /\ u.row = v.row => u = v
    BY <1>2, WriteShape DEF CreatesFresh
  <2>5. CASE UNCHANGED table
    BY <1>2, <2>1, <2>3, <2>4, <2>5, WriteShape DEF CreatesFresh
  <2>6. CASE ServerApplies(w) /\ table' = [table EXCEPT ![w.row] = Remotely(w, @)]
    <3>1. \A r \in Rows : r # w.row => table'[r] = table[r]
      BY <2>6 DEF TypeOK
    <3>2. table'[w.row] = Remotely(w, table[w.row])
      BY <2>2, <2>6 DEF TypeOK
    <3>3. w.kind # "create" /\ table[w.row] = Absent => table'[w.row] = Absent
      BY <2>2, <3>2 DEF Remotely, Write, Kinds
    <3>4. \A r \in Rows : table'[r] # Absent => r \in used'
      BY <2>1, <3>1, <3>3 DEF CreatesFresh
    <3>5. ASSUME NEW v \in writes', v.kind = "create", v.at = "sent"
          PROVE  table'[v.row] = Absent
      <4>1. v \in writes \ {w}
        <5>1. w.at = "sent" /\ \A u \in writes' \ (writes \ {w}) : u.at = "applied"
          BY <2>2, <2>6 DEF ServerApplies, Write
        <5> QED BY <3>5, <5>1
      <4>2. table[v.row] = Absent /\ v.row \in Rows
        BY <3>5, <4>1 DEF CreatesFresh, TypeOK, Write
      <4>3. CASE v.row = w.row
        <5>1. w.kind # "create"
          BY <3>5, <4>1, <4>3 DEF CreatesFresh
        <5> QED BY <3>3, <4>2, <4>3, <5>1
      <4> QED BY <3>1, <4>2, <4>3
    <3> QED BY <2>3, <2>4, <3>4, <3>5 DEF CreatesFresh
  <2> QED BY <1>2, <2>5, <2>6, TableStep
<1>3. ASSUME UNCHANGED <<table, used, writes>> PROVE CreatesFresh'
  BY <1>3 DEF CreatesFresh
<1>4. CASE loadRemoteConfigs
  BY <1>3, <1>4 DEF loadRemoteConfigs, server
<1>5. ASSUME NEW l \in loads, LoadStep(l) PROVE CreatesFresh'
  BY <1>3, <1>5, LoadShape
<1>6. CASE UNCHANGED vars
  BY <1>3, <1>6 DEF vars, server
<1> QED BY <1>1, <1>2, <1>4, <1>5, <1>6 DEF Next, Sends

LEMMA LoadsStep ==
    ASSUME TypeOK, LoadsFresh, [Next]_vars
    PROVE  LoadsFresh'
<1>1. ASSUME NEW r \in Rows, Sends(r) PROVE LoadsFresh'
  <2>1. PICK k \in Kinds : SendWrite(k, r)
    BY <1>1, SendsAre
  <2>2. \A m \in loads' : \E l \in loads :
          m.at = l.at /\ m.rows = l.rows /\ m.dirty = l.dirty \cup {r}
    BY <2>1, SendShape
  <2>3. Writing' = Writing \cup {r}
    <3>1. PICK n \in Write : n.row = r /\ writes' = writes \cup {n}
      BY <2>1, SendShape
    <3> QED BY <3>1 DEF Writing
  <2>4. UNCHANGED table
    BY <2>1, SendShape
  <2>5. ASSUME NEW m \in loads'
        PROVE  /\ Writing' \subseteq m.dirty
               /\ m.at = "read" => \A q \in Rows \ m.dirty : m.rows[q] = table'[q]
    <3>1. PICK l \in loads :
            m.at = l.at /\ m.rows = l.rows /\ m.dirty = l.dirty \cup {r}
      BY <2>2
    <3> QED BY <2>3, <2>4, <3>1 DEF LoadsFresh
  <2> QED BY <2>5 DEF LoadsFresh
<1>2. ASSUME NEW w \in writes, WriteStep(w) PROVE LoadsFresh'
  <2>1. UNCHANGED loads
    BY <1>2, WriteShape
  <2>2. Writing' \subseteq Writing
    BY <1>2, WriteShape DEF Writing
  <2>3. \A l \in loads : w.row \in l.dirty
    BY DEF LoadsFresh, Writing
  <2>4. \A r \in Rows : r # w.row => table'[r] = table[r]
    BY <1>2, TableStep DEF TypeOK
  <2> QED BY <2>1, <2>2, <2>3, <2>4 DEF LoadsFresh
<1>3. CASE loadRemoteConfigs
  BY <1>3 DEF loadRemoteConfigs, LoadsFresh, Writing, server
<1>4. ASSUME NEW l \in loads, LoadStep(l) PROVE LoadsFresh'
  <2>1. UNCHANGED <<table, writes>>
    BY <1>4, LoadShape
  <2>2. l \in Load
    BY DEF TypeOK
  <2>3. ASSUME NEW m \in loads', m \notin loads
        PROVE  /\ m.dirty = l.dirty
               /\ m.at = "read" => m.rows = table
    <3>1. CASE ServerReads(l)
      BY <2>2, <2>3, <3>1 DEF ServerReads, Load
    <3>2. CASE ServerRefusesLoad(l)
      BY <2>2, <2>3, <3>2 DEF ServerRefusesLoad, Load
    <3>3. CASE LoadOK(l) \/ LoadRefused(l) \/ LoadHttpError(l)
      BY <2>3, <3>3 DEF LoadOK, LoadRefused, LoadHttpError
    <3> QED BY <1>4, <3>1, <3>2, <3>3 DEF LoadStep
  <2>4. ASSUME NEW m \in loads'
        PROVE  /\ Writing' \subseteq m.dirty
               /\ m.at = "read" => \A r \in Rows \ m.dirty : m.rows[r] = table'[r]
    BY <2>1, <2>3 DEF LoadsFresh, Writing
  <2> QED BY <2>4 DEF LoadsFresh
<1>5. CASE UNCHANGED vars
  BY <1>5 DEF vars, server, LoadsFresh, Writing
<1> QED BY <1>1, <1>2, <1>3, <1>4, <1>5 DEF Next, Sends

\* A row no applied write waits for is listed as the table has it.
LEMMA FollowStep ==
    ASSUME TypeOK, TypeOK', WritesApart, CreatesFresh, LoadsFresh, ListFollows,
           [Next]_vars
    PROVE  ListFollows'
<1>1. ASSUME NEW r \in Rows, Sends(r) PROVE ListFollows'
  <2>1. PICK k \in Kinds : SendWrite(k, r)
    BY <1>1, SendsAre
  <2>2. PICK n \in Write : n.at = "sent" /\ writes' = writes \cup {n}
    BY <2>1, SendShape
  <2>3. /\ UNCHANGED <<table, status, copies>>
        /\ disputed \subseteq disputed'
    BY <2>1, SendShape
  <2>4. ASSUME NEW q \in Rows, Behind(q, copies[q])
        PROVE  Behind(q, copies[q])'
    BY <2>2, <2>3, <2>4 DEF Behind
  <2> QED BY <2>3, <2>4 DEF ListFollows
<1>2. ASSUME NEW w \in writes, WriteStep(w), status' = "success",
             NEW r \in Rows \ disputed'
      PROVE  Behind(r, copies[r])'
  <2>1. w \in Write /\ w.row \in Rows
    BY DEF TypeOK, Write
  <2>2. r \in Rows \ disputed
    BY <1>2, WriteShape
  <2>3. status = "success" /\ Behind(r, copies[r])
    <3>1. status = "success"
      BY <1>2 DEF WriteStep, ServerApplies, ServerRefuses, WriteOK, WriteThrows,
         WriteRefused, WriteHttpError, configs
    <3> QED BY <2>2, <3>1 DEF ListFollows
  <2>4. CASE r # w.row
    <3>1. {v \in writes' : v.row = r} = {v \in writes : v.row = r}
      BY <1>2, <2>4, WriteShape
    <3>2. table'[r] = table[r]
      BY <1>2, <2>4, TableStep DEF TypeOK
    <3>3. copies'[r] = copies[r]
      BY <1>2, <2>4 DEF WriteStep, ServerApplies, ServerRefuses, WriteOK,
         WriteThrows, WriteRefused, WriteHttpError, configs, TypeOK
    <3> QED BY <2>3, <3>1, <3>2, <3>3 DEF Behind
  <2>5. CASE r = w.row
    <3>1. \A v \in writes : v.row = r => v = w
      BY <2>2, <2>5 DEF WritesApart
    <3>2. \A v \in writes' : v.row = r => v \notin writes \ {w}
      BY <3>1
    <3>3. CASE ServerApplies(w)
      <4>1. copies[r] = CopiesOf(table[r])
        BY <2>3, <3>1, <3>3 DEF Behind, ServerApplies
      <4>2. table'[r] = Remotely(w, table[r])
        BY <2>1, <2>5, <3>3 DEF ServerApplies, TypeOK
      <4>3. w.kind = "create" => table[r] = Absent
        BY <2>5, <3>3 DEF ServerApplies, CreatesFresh
      <4>4. Locally(w, copies[r]) = CopiesOf(table'[r])
        <5>1. table[r] \in Contents \cup {Absent}
          BY DEF TypeOK
        <5> QED BY <2>1, <4>1, <4>2, <4>3, <5>1, LocalChange
      <4>5. \A v \in writes' : v.row = r =>
              v.at = "applied" /\ Locally(v, copies[r]) = Locally(w, copies[r])
        <5>1. \A v \in writes' : v.row = r =>
                v.at = "applied" /\ v.stamp = w.stamp /\ v.kind = w.kind
          BY <1>2, <2>1, <3>2, <3>3, WriteShape DEF ServerApplies, Write
        <5> QED BY <5>1 DEF Locally
      <4>6. \E v \in writes' : v.row = r
        <5>1. w.heard
          BY <1>2, <2>5, <3>3 DEF ServerApplies
        <5>2. [w EXCEPT !.at = "applied"] \in writes'
          BY <3>3, <5>1 DEF ServerApplies
        <5> QED BY <2>1, <2>5, <5>2 DEF Write
      <4>7. UNCHANGED copies
        BY <3>3 DEF ServerApplies, configs
      <4> QED BY <4>4, <4>5, <4>6, <4>7 DEF Behind
    <3>4. CASE WriteOK(w)
      <4>1. copies'[r] = CopiesOf(table[r])
        BY <2>1, <2>3, <2>5, <3>4 DEF WriteOK, Behind, TypeOK
      <4>2. \A v \in writes' : v.row # r
        BY <3>1, <3>4 DEF WriteOK
      <4>3. UNCHANGED table
        BY <3>4 DEF WriteOK, server
      <4> QED BY <4>1, <4>2, <4>3 DEF Behind
    <3>5. CASE ServerRefuses(w) \/ WriteRefused(w) \/ WriteHttpError(w)
      <4>1. w.at # "applied"
        BY <1>2, <2>5, <3>5 DEF ServerRefuses, WriteRefused, WriteHttpError
      <4>2. copies[r] = CopiesOf(table[r])
        BY <2>3, <3>1, <4>1 DEF Behind
      <4>3. \A v \in writes' : v.row = r => v.at # "applied"
        BY <2>1, <3>2, <3>5, <4>1 DEF ServerRefuses, WriteRefused,
           WriteHttpError, Write
      <4>4. UNCHANGED table /\ copies'[r] = copies[r]
        BY <1>2, <3>5 DEF ServerRefuses, WriteRefused, WriteHttpError, server, configs
      <4> QED BY <4>2, <4>3, <4>4 DEF Behind
    <3>6. CASE WriteThrows(w)
      BY <1>2, <2>5, <3>6 DEF WriteThrows
    <3> QED BY <1>2, <3>3, <3>4, <3>5, <3>6 DEF WriteStep
  <2> QED BY <2>4, <2>5
<1>3. CASE loadRemoteConfigs
  BY <1>3 DEF loadRemoteConfigs, ListFollows
<1>4. ASSUME NEW l \in loads, LoadStep(l) PROVE ListFollows'
  <2>1. UNCHANGED <<table, writes>>
    BY <1>4, LoadShape
  <2>2. CASE LoadOK(l)
    <3>1. ASSUME NEW r \in Rows \ disputed' PROVE Behind(r, copies[r])'
      <4>1. r \notin l.dirty /\ \A w \in writes : w.row # r
        BY <2>2, <3>1 DEF LoadOK, LoadsFresh, Writing
      <4>2. copies'[r] = CopiesOf(table[r])
        BY <2>2, <4>1 DEF LoadOK, LoadsFresh
      <4> QED BY <2>1, <4>1, <4>2 DEF Behind
    <3> QED BY <3>1 DEF ListFollows
  <2>3. CASE LoadRefused(l)
    BY <2>3 DEF LoadRefused, ListFollows
  <2>4. CASE ServerReads(l) \/ ServerRefusesLoad(l) \/ LoadHttpError(l)
    <3>1. UNCHANGED <<status, copies, disputed>>
      BY <2>4 DEF ServerReads, ServerRefusesLoad, LoadHttpError, configs
    <3> QED BY <2>1, <3>1 DEF ListFollows, Behind
  <2> QED BY <1>4, <2>2, <2>3, <2>4 DEF LoadStep
<1>5. CASE UNCHANGED vars
  BY <1>5 DEF vars, server, configs, ListFollows, Behind
<1>6. ASSUME NEW w \in writes, WriteStep(w) PROVE ListFollows'
  BY <1>2, <1>6 DEF ListFollows
<1> QED BY <1>1, <1>3, <1>4, <1>5, <1>6 DEF Next, Sends

\* The list of configs agrees with the server's table on every row that no
\* race or fault has disputed (effects.ts answers, reducers.ts:5-17), for any
\* number of rows and of overlapping writes and loads.
THEOREM ListIsTable == Spec => []ListAgrees
<1>1. Init => IInv
  <2>1. ASSUME Init PROVE WritesApart /\ CreatesFresh /\ LoadsFresh /\ ListFollows
    BY <2>1 DEF Init, WritesApart, CreatesFresh, LoadsFresh, ListFollows
  <2> QED BY <2>1, TypeInit DEF IInv
<1>2. IInv /\ [Next]_vars => IInv'
  BY TypeStep, ApartStep, FreshStep, LoadsStep, FollowStep DEF IInv
<1>3. IInv => ListAgrees
  BY DEF IInv, ListFollows, ListAgrees, Behind, Writing
<1> QED BY <1>1, <1>2, <1>3, PTL DEF Spec

(***************************************************************************)
(* Every step is a step of the slice or leaves it alone                    *)
(***************************************************************************)
LEMMA SliceStep == [DashboardNext]_allVars => [Next]_vars
<1> SUFFICES ASSUME [DashboardNext]_allVars PROVE [Next]_vars
  OBVIOUS
<1>1. CASE Login \/ logout
  BY <1>1 DEF Login, logout
<1>2. CASE ProfileEffect \/ Sync
  BY <1>2 DEF ProfileEffect, Sync, LoadBoth, Next
<1>3. ASSUME NEW a \in appLoads, AppStep(a) PROVE [Next]_vars
  BY <1>3 DEF AppStep, AppRead, AppRefusal, AppServed, AppOK, AppRefused,
     AppsArrive, AppHttpError
<1>4. CASE Create
  BY <1>4 DEF Create, SendsWrite, Next
<1>5. CASE Update
  BY <1>5 DEF Update, SendsWrite, Next
<1>6. CASE Delete
  BY <1>6 DEF Delete, SendsWrite, Next
<1>7. ASSUME NEW w \in writes, WriteMoves(w) PROVE [Next]_vars
  BY <1>7 DEF WriteMoves, Next
<1>8. ASSUME NEW l \in loads, LoadMoves(l) PROVE [Next]_vars
  BY <1>8 DEF LoadMoves, Next
<1>9. CASE Rebind \/ PageActs
  BY <1>9 DEF Rebind, PageActs
<1>10. CASE UNCHANGED allVars
  BY <1>10 DEF allVars
<1> QED BY <1>1, <1>2, <1>3, <1>4, <1>5, <1>6, <1>7, <1>8, <1>9, <1>10
        DEF DashboardNext

\* The application implements the slice: session, syncs and pages use
\* globalConfig only as ConfigStore says.
THEOREM AppKeepsSlice == DashboardSpec => Spec
<1>1. DashboardInit => Init
  BY DEF DashboardInit
<1> QED BY <1>1, SliceStep, PTL DEF DashboardSpec, Spec

(***************************************************************************)
(* Intervals                                                               *)
(***************************************************************************)
\* As long as nothing is deleted, refused or bound anew, the query of the
\* page is in every list there is.
QueryStays ==
    /\ source \in Present \cup {None}
    /\ \A w \in writes : w.kind # "delete"
    /\ \A r \in Present : table[r] # Absent
    /\ \A l \in loads : l.at = "read" => \A r \in Present : l.rows[r] # Absent
    /\ status = "success" => \A r \in Present : copies[r] # <<>>

\* No interval runs without the form, and no other than the one the component
\* will clear.
Owned ==
    /\ \A t \in timers : t.no = timer
    /\ ~View!FormShown => timers = {} /\ timer = 0

DInv == TypeOK /\ (~disturbed => QueryStays /\ Owned)

LEMMA FormIsShown ==
    ASSUME QueryStays
    PROVE  View!FormShown <=> PageShown /\ status = "success" /\ source # None
BY ConstantsAssumption, BoundAssumption DEF QueryStays, View!FormShown, loadById

\* The steps of the slice, but for deletes.
NoDelete ==
    \/ \E r \in Rows : createRemoteConfig(r) \/ updateRemoteConfig(r)
    \/ \E w \in writes : WriteStep(w)
    \/ loadRemoteConfigs
    \/ \E l \in loads : LoadStep(l)

LEMMA StaysStep ==
    ASSUME TypeOK, QueryStays, [NoDelete]_vars, UNCHANGED source
    PROVE  QueryStays'
<1>1. ASSUME NEW r \in Rows, createRemoteConfig(r) \/ updateRemoteConfig(r)
      PROVE  QueryStays'
  <2>1. PICK k \in {"create", "update"} : SendWrite(k, r)
    BY <1>1 DEF createRemoteConfig, updateRemoteConfig
  <2>2. k \in Kinds
    BY DEF Kinds
  <2>3. \E n \in Write : n.kind = k /\ writes' = writes \cup {n}
    BY <2>1, <2>2, SendShape
  <2>4. /\ \A m \in loads' : \E l \in loads : m.at = l.at /\ m.rows = l.rows
        /\ UNCHANGED <<table, status, copies>>
    BY <2>1, <2>2, SendShape
  <2> QED BY <2>3, <2>4 DEF QueryStays
<1>2. ASSUME NEW w \in writes, WriteStep(w) PROVE QueryStays'
  <2>1. w \in Write /\ w.kind \in {"create", "update"}
    BY DEF QueryStays, TypeOK, Write, Kinds
  <2>2. UNCHANGED loads /\ \A v \in writes' : v.kind # "delete"
    BY <1>2, WriteShape DEF QueryStays
  <2>3. w.stamp # Absent
    BY <2>1, ConstantsAssumption DEF Write
  <2>4. \A r \in Present : table'[r] # Absent
    <3>1. CASE UNCHANGED table
      BY <3>1 DEF QueryStays
    <3>2. CASE table' = [table EXCEPT ![w.row] = Remotely(w, @)]
      <4>1. table[w.row] # Absent => Remotely(w, table[w.row]) # Absent
        BY <2>1, <2>3 DEF Remotely
      <4> QED BY <3>2, <4>1, ConstantsAssumption DEF TypeOK, QueryStays
    <3> QED BY <1>2, <3>1, <3>2, TableStep
  <2>5. ASSUME status' = "success", NEW r \in Present PROVE copies'[r] # <<>>
    <3>1. status = "success" /\ r \in Rows
      BY <1>2, <2>1, <2>5, ConstantsAssumption DEF WriteStep, ServerApplies,
         ServerRefuses, WriteOK, WriteThrows, WriteRefused, WriteHttpError, configs
    <3>2. copies[r] # <<>> /\ copies[r] \in Seq(Contents)
      BY <3>1 DEF QueryStays, TypeOK
    <3>3. CASE WriteOK(w) /\ r = w.row
      <4>1. copies'[r] = Locally(w, copies[r])
        BY <3>1, <3>3 DEF WriteOK, TypeOK
      <4>2. CASE w.kind = "create"
        <5>1. Append(copies[r], w.stamp) # <<>>
          BY <3>2
        <5> QED BY <4>1, <4>2, <5>1 DEF Locally
      <4>3. CASE w.kind = "update"
        <5>1. 1 \in DOMAIN copies[r]
          BY <3>2
        <5>2. DOMAIN <<>> = {}
          OBVIOUS
        <5>3. [i \in DOMAIN copies[r] |-> w.stamp] # <<>>
          BY <5>1, <5>2
        <5> QED BY <4>1, <4>3, <5>3 DEF Locally
      <4> QED BY <2>1, <4>2, <4>3
    <3>4. CASE ~(WriteOK(w) /\ r = w.row)
      <4>1. copies'[r] = copies[r]
        BY <1>2, <2>1, <3>1, <3>4 DEF WriteStep, ServerApplies, ServerRefuses,
           WriteOK, WriteThrows, WriteRefused, WriteHttpError, configs, TypeOK
      <4> QED BY <3>2, <4>1
    <3> QED BY <3>3, <3>4
  <2> QED BY <2>2, <2>4, <2>5 DEF QueryStays
<1>3. CASE loadRemoteConfigs
  BY <1>3 DEF loadRemoteConfigs, server, QueryStays
<1>4. ASSUME NEW l \in loads, LoadStep(l) PROVE QueryStays'
  <2>1. UNCHANGED <<table, writes>>
    BY <1>4, LoadShape
  <2>2. l \in Load
    BY DEF TypeOK
  <2>3. \A m \in loads' : m.at = "read" => \A r \in Present : m.rows[r] # Absent
    <3>1. ASSUME NEW m \in loads' \ loads
          PROVE  m.at = "read" => m.rows = table
      <4>1. CASE ServerReads(l)
        BY <2>2, <4>1 DEF ServerReads, Load
      <4>2. CASE ServerRefusesLoad(l)
        BY <2>2, <4>2 DEF ServerRefusesLoad, Load
      <4>3. CASE LoadOK(l) \/ LoadRefused(l) \/ LoadHttpError(l)
        BY <4>3 DEF LoadOK, LoadRefused, LoadHttpError
      <4> QED BY <1>4, <4>1, <4>2, <4>3 DEF LoadStep
    <3> QED BY <3>1 DEF QueryStays
  <2>4. ASSUME status' = "success", NEW r \in Present PROVE copies'[r] # <<>>
    <3>1. CASE LoadOK(l)
      <4>1. l.rows[r] # Absent
        BY <3>1 DEF LoadOK, QueryStays
      <4>2. copies'[r] = <<l.rows[r]>>
        BY <3>1, <4>1, ConstantsAssumption DEF LoadOK, CopiesOf
      <4> QED BY <4>2
    <3>2. CASE LoadRefused(l)
      BY <2>4, <3>2 DEF LoadRefused
    <3>3. CASE ServerReads(l) \/ ServerRefusesLoad(l) \/ LoadHttpError(l)
      BY <2>4, <3>3 DEF ServerReads, ServerRefusesLoad, LoadHttpError, configs,
         QueryStays
    <3> QED BY <1>4, <3>1, <3>2, <3>3 DEF LoadStep
  <2> QED BY <2>1, <2>3, <2>4 DEF QueryStays
<1>5. CASE UNCHANGED vars
  BY <1>5 DEF vars, server, configs, QueryStays
<1> QED BY <1>1, <1>2, <1>3, <1>4, <1>5 DEF NoDelete

\* A list that is lost while the page stays is lost to a refusal.
LEMMA ListStays ==
    ASSUME QueryStays, [DashboardNext]_allVars, ~disturbed', status = "success",
           PageShown'
    PROVE  status' = "success"
<1>1. CASE Login \/ logout \/ Rebind \/ PageActs \/ UNCHANGED allVars
  BY <1>1 DEF Login, logout, Rebind, PageActs, allVars, vars, configs
<1>2. CASE ProfileEffect \/ Sync
  BY <1>2 DEF ProfileEffect, Sync, LoadBoth, PageShown
<1>3. ASSUME NEW a \in appLoads, AppStep(a) PROVE status' = "success"
  BY <1>3 DEF AppStep, AppRead, AppRefusal, AppServed, AppOK, AppRefused,
     AppsArrive, AppHttpError, vars, configs
<1>4. CASE Create \/ Update \/ Delete
  BY <1>4 DEF Create, Update, Delete, SendsWrite, createRemoteConfig,
     updateRemoteConfig, deleteRemoteConfigs, SendWrite
<1>5. ASSUME NEW w \in writes, WriteMoves(w) PROVE status' = "success"
  BY <1>5 DEF WriteMoves, WriteStep, ServerApplies, ServerRefuses, WriteOK,
     WriteThrows, WriteRefused, WriteHttpError, configs
<1>6. ASSUME NEW l \in loads, LoadMoves(l) PROVE status' = "success"
  BY <1>6 DEF LoadMoves, LoadStep, ServerReads, ServerRefusesLoad, LoadOK,
     LoadRefused, LoadHttpError, configs
<1> QED BY <1>1, <1>2, <1>3, <1>4, <1>5, <1>6 DEF DashboardNext

\* What the component does when page or list change keeps its intervals.
LEMMA FollowsOwned ==
    ASSUME Owned, View!Follows,
           PageShown' /\ View!FormShown => View!FormShown'
    PROVE  Owned'
<1>1. CASE PageShown /\ ~PageShown'
  <2>1. timers' = {t \in timers : t.no # timer} /\ timer' = 0
    BY <1>1 DEF View!Follows, View!Unmounts, View!FormShown
  <2>2. timers' = {}
    BY <2>1 DEF Owned
  <2> QED BY <2>1, <2>2 DEF Owned
<1>2. CASE ~View!FormShown /\ View!FormShown'
  <2>1. View!FormMounts
    BY <1>2 DEF View!Follows, View!FormShown
  <2>2. timers = {}
    BY <1>2 DEF Owned
  <2>3. \A t \in timers' : t.no = timer'
    BY <2>1, <2>2 DEF View!FormMounts
  <2> QED BY <1>2, <2>3 DEF Owned
<1>3. CASE ~(PageShown /\ ~PageShown') /\ ~(~View!FormShown /\ View!FormShown')
  <2>1. UNCHANGED <<timers, timer>>
    BY <1>3 DEF View!Follows, View!own
  <2>2. ~View!FormShown' => ~View!FormShown
    BY <1>3 DEF View!FormShown
  <2> QED BY <2>1, <2>2 DEF Owned
<1> QED BY <1>1, <1>2, <1>3

\* The component's own handlers leave the intervals alone.
LEMMA PageActsOwned ==
    ASSUME Owned, PageActs
    PROVE  Owned' /\ UNCHANGED source
<1>1. UNCHANGED <<source, timers, timer>>
  BY DEF PageActs, Intervals, Answers, View!SetInterval, View!submit,
     View!FormSubmits, View!TimerFires, View!ResultArrives, View!ErrorArrives,
     View!own
<1>2. UNCHANGED <<status, copies, session, apps>>
  BY DEF PageActs, vars, configs, page
<1>3. View!FormShown' <=> View!FormShown
  BY <1>1, <1>2 DEF View!FormShown, PageShown, loadById
<1> QED BY <1>1, <1>3 DEF Owned

\* What is left to happen while nothing is disturbed: the page follows a
\* step of the slices, or acts itself, or nothing it looks at changes.
LEMMA CalmStep ==
    ASSUME [DashboardNext]_allVars, ~disturbed'
    PROVE  /\ ~disturbed
           /\ [NoDelete]_vars
           /\ \/ View!Follows
              \/ PageActs
              \/ UNCHANGED <<view, status, session, apps>> /\
                 (UNCHANGED copies)
<1> DEFINE Calm ==
      /\ ~disturbed
      /\ [NoDelete]_vars
      /\ \/ View!Follows
         \/ PageActs
         \/ UNCHANGED <<view, status, session, apps>> /\ (UNCHANGED copies)
<1>1. CASE Login \/ logout
  BY <1>1 DEF Login, logout
<1>2. CASE ProfileEffect \/ Sync
  BY <1>2 DEF ProfileEffect, Sync, LoadBoth, NoDelete
<1>3. ASSUME NEW a \in appLoads, AppStep(a) PROVE Calm
  <2>1. CASE AppRead(a) \/ AppRefusal(a) \/ AppHttpError(a)
    BY <2>1 DEF AppRead, AppRefusal, AppServed, AppHttpError, vars, configs
  <2>2. CASE AppOK(a) \/ AppRefused(a)
    BY <2>2 DEF AppOK, AppRefused, AppsArrive
  <2> QED BY <1>3, <2>1, <2>2 DEF AppStep
<1>4. CASE Create \/ Update
  <2>1. UNCHANGED <<status, copies>>
    BY <1>4 DEF Create, Update, SendsWrite, createRemoteConfig,
       updateRemoteConfig, SendWrite
  <2> QED BY <1>4, <2>1 DEF Create, Update, SendsWrite, NoDelete
<1>5. CASE Delete
  BY <1>5 DEF Delete
<1>6. ASSUME NEW w \in writes, WriteMoves(w) PROVE Calm
  BY <1>6 DEF WriteMoves, NoDelete
<1>7. ASSUME NEW l \in loads, LoadMoves(l) PROVE Calm
  BY <1>7 DEF LoadMoves, NoDelete
<1>8. CASE Rebind
  BY <1>8 DEF Rebind
<1>9. CASE PageActs
  BY <1>9 DEF PageActs, page
<1>10. CASE UNCHANGED allVars
  BY <1>10 DEF allVars, vars, configs, page
<1> QED BY <1>1, <1>2, <1>3, <1>4, <1>5, <1>6, <1>7, <1>8, <1>9, <1>10
        DEF DashboardNext

LEMMA DInvStep ==
    ASSUME DInv, [DashboardNext]_allVars, ~disturbed'
    PROVE  QueryStays' /\ Owned'
<1>1. TypeOK /\ QueryStays /\ Owned /\ [NoDelete]_vars
  BY CalmStep DEF DInv
<1>2. UNCHANGED source
  <2>1. View!Follows => UNCHANGED source
    BY DEF View!Follows
  <2>2. PageActs => UNCHANGED source
    BY <1>1, PageActsOwned
  <2>3. UNCHANGED view => UNCHANGED source
    BY DEF view
  <2> QED BY <2>1, <2>2, <2>3, CalmStep
<1>3. QueryStays'
  BY <1>1, <1>2, StaysStep
<1>4. CASE View!Follows
  <2>1. View!FormShown' <=> PageShown' /\ status' = "success" /\ source' # None
    BY <1>2, <1>3, ConstantsAssumption, BoundAssumption
       DEF QueryStays, View!FormShown, loadById
  <2>2. PageShown' /\ View!FormShown => View!FormShown'
    BY <1>1, <1>2, <2>1, FormIsShown, ListStays
  <2> QED BY <1>1, <1>3, <1>4, <2>2, FollowsOwned
<1>5. CASE PageActs
  BY <1>1, <1>3, <1>5, PageActsOwned
<1>6. CASE UNCHANGED <<view, status, session, apps>> /\ (UNCHANGED copies)
  <2>1. View!FormShown' <=> View!FormShown
    BY <1>6 DEF view, View!FormShown, PageShown, loadById
  <2> QED BY <1>1, <1>3, <1>6, <2>1 DEF Owned, view
<1> QED BY <1>4, <1>5, <1>6, CalmStep

\* No interval is left behind (ExecuteInterfaceComponent.tsx:151-154), for any
\* number of configs, writes and overlapping syncs.
THEOREM NoIntervalLeft == DashboardSpec => []IntervalsOwned
<1>1. DashboardInit => DInv
  <2>1. SUFFICES ASSUME DashboardInit PROVE TypeOK /\ QueryStays /\ Owned
    BY DEF DInv
  <2>2. PICK s \in Bound : View!ViewInit(s, TRUE)
    BY <2>1 DEF DashboardInit
  <2>3. TypeOK
    BY <2>1, TypeInit DEF DashboardInit
  <2>4. QueryStays
    <3>1. source \in Present \cup {None}
      BY <2>2, BoundAssumption DEF View!ViewInit
    <3>2. \A r \in Present : table[r] # Absent
      <4>1. Absent # 0 /\ Present \subseteq Rows
        BY ConstantsAssumption
      <4>2. table = [r \in Rows |-> IF r \in Present THEN 0 ELSE Absent]
        BY <2>1 DEF DashboardInit, Init
      <4> QED BY <4>1, <4>2
    <3>3. writes = {} /\ loads = {} /\ status # "success"
      BY <2>1 DEF DashboardInit, Init
    <3> QED BY <3>1, <3>2, <3>3 DEF QueryStays
  <2>5. Owned
    BY <2>2 DEF View!ViewInit, Owned
  <2> QED BY <2>3, <2>4, <2>5
<1>2. DInv /\ [DashboardNext]_allVars => DInv'
  <2>1. DInv /\ [DashboardNext]_allVars => TypeOK'
    BY SliceStep, TypeStep DEF DInv
  <2> QED BY <2>1, DInvStep DEF DInv
<1>3. DInv => IntervalsOwned
  BY DEF DInv, Owned, IntervalsOwned, View!FormShown
<1> QED BY <1>1, <1>2, <1>3, PTL DEF DashboardSpec

(***************************************************************************)
(* Types and the loading flag                                              *)
(***************************************************************************)
ViewInv == View!ViewTypeOK /\ LoadingEnds

LEMMA ExecuteKeeps ==
    ASSUME ViewInv, NEW q \in Rows, View!Execute(q)
    PROVE  /\ asked' \in [Rows -> 0 .. MaxAsked]
           /\ loading' \in BOOLEAN /\ erred' \in BOOLEAN
           /\ LoadingEnds'
<1>1. asked[q] \in 0 .. MaxAsked /\ asked[q] < MaxAsked
  BY DEF ViewInv, View!ViewTypeOK, View!Execute
<1>2. asked[q] + 1 \in 0 .. MaxAsked /\ asked[q] + 1 > 0
  BY <1>1, BoundAssumption
<1>3. asked' = [asked EXCEPT ![q] = asked[q] + 1]
  BY DEF View!Execute
<1>4. asked' \in [Rows -> 0 .. MaxAsked] /\ asked'[q] > 0
  BY <1>2, <1>3 DEF ViewInv, View!ViewTypeOK
<1>5. loading' = TRUE /\ erred' = erred
  BY DEF View!Execute
<1>6. LoadingEnds'
  BY <1>4 DEF LoadingEnds
<1> QED BY <1>4, <1>5, <1>6 DEF ViewInv, View!ViewTypeOK

\* The form mounts: an execution starts, and an interval with a free number.
LEMMA MountKeeps ==
    ASSUME ViewInv, source' \in Rows, every' \in BOOLEAN, submitting' \in BOOLEAN,
           View!FormMounts
    PROVE  ViewInv'
<1>1. /\ asked' \in [Rows -> 0 .. MaxAsked]
      /\ loading' \in BOOLEAN /\ erred' \in BOOLEAN
      /\ LoadingEnds'
  BY ExecuteKeeps DEF View!FormMounts
<1>2. /\ timers' \subseteq [no : 1 .. MaxTimers, query : Rows]
      /\ timer' \in 0 .. MaxTimers
  <2>1. CASE UNCHANGED <<timers, timer>>
    BY <2>1 DEF ViewInv, View!ViewTypeOK
  <2>2. ASSUME NEW n \in View!FreeNumbers, timer' = n,
               timers' = timers \cup {[no |-> n, query |-> source']}
        PROVE  /\ timers' \subseteq [no : 1 .. MaxTimers, query : Rows]
               /\ timer' \in 0 .. MaxTimers
    <3>1. n \in 1 .. MaxTimers /\ n \in 0 .. MaxTimers
      BY BoundAssumption DEF View!FreeNumbers
    <3> QED BY <2>2, <3>1 DEF ViewInv, View!ViewTypeOK
  <2> QED BY <2>1, <2>2 DEF View!FormMounts
<1> QED BY <1>1, <1>2 DEF ViewInv, View!ViewTypeOK

\* What the component does when page or list change.
LEMMA FollowsKeeps ==
    ASSUME ViewInv, View!Follows
    PROVE  ViewInv'
<1>1. UNCHANGED <<source, every>>
  BY DEF View!Follows
<1>2. CASE View!Unmounts
  <2>1. timers' \subseteq timers /\ timer' \in 0 .. MaxTimers /\ submitting' \in BOOLEAN
    <3>1. timers' \subseteq timers
      BY <1>2 DEF View!Unmounts
    <3>2. 0 \in 0 .. MaxTimers
      BY BoundAssumption
    <3> QED BY <1>2, <3>1, <3>2 DEF View!Unmounts
  <2>2. UNCHANGED <<source, every, asked, loading, erred>>
    BY <1>1, <1>2 DEF View!Unmounts, View!outcome
  <2> QED BY <2>1, <2>2 DEF ViewInv, View!ViewTypeOK, LoadingEnds
<1>3. CASE View!FormShown' /\ View!FormMounts /\ UNCHANGED submitting
  <2>1. source' \in Rows
    BY <1>3 DEF View!FormShown
  <2>2. every' \in BOOLEAN /\ submitting' \in BOOLEAN
    BY <1>1, <1>3 DEF ViewInv, View!ViewTypeOK
  <2> QED BY <1>3, <2>1, <2>2, MountKeeps
<1>4. CASE UNCHANGED <<View!own, View!outcome>>
  BY <1>1, <1>4 DEF View!own, View!outcome, ViewInv, View!ViewTypeOK, LoadingEnds
<1> QED BY <1>2, <1>3, <1>4 DEF View!Follows

\* An answer ends an execution; only an error leaves the flag as it is.
LEMMA AnswerKeeps ==
    ASSUME ViewInv, NEW q \in Rows, View!ResultArrives(q) \/ View!ErrorArrives(q)
    PROVE  ViewInv'
<1>1. asked[q] \in 0 .. MaxAsked /\ asked[q] > 0
  BY DEF ViewInv, View!ViewTypeOK, View!ResultArrives, View!ErrorArrives
<1>2. asked[q] - 1 \in 0 .. MaxAsked
  BY <1>1, BoundAssumption
<1>3. asked' = [asked EXCEPT ![q] = asked[q] - 1]
  BY DEF View!ResultArrives, View!ErrorArrives
<1>4. asked' \in [Rows -> 0 .. MaxAsked]
  BY <1>2, <1>3 DEF ViewInv, View!ViewTypeOK
<1>5. /\ loading' \in BOOLEAN /\ erred' \in BOOLEAN
      /\ ~(loading' /\ ~erred')
  BY DEF View!ResultArrives, View!ErrorArrives, ViewInv, View!ViewTypeOK
<1>6. UNCHANGED <<source, every, submitting, timers, timer>>
  BY DEF View!ResultArrives, View!ErrorArrives, View!own
<1> QED BY <1>4, <1>5, <1>6 DEF ViewInv, View!ViewTypeOK, LoadingEnds

LEMMA PageActsKeep ==
    ASSUME ViewInv, PageActs
    PROVE  ViewInv'
<1>1. CASE (\E e \in BOOLEAN : View!SetInterval(e)) \/ View!submit
  <2>1. UNCHANGED <<source, timers, timer, asked, loading, erred>>
    BY <1>1 DEF View!SetInterval, View!submit, View!own, View!outcome
  <2>2. every' \in BOOLEAN /\ submitting' \in BOOLEAN
    BY <1>1 DEF View!SetInterval, View!submit, View!own, ViewInv, View!ViewTypeOK
  <2> QED BY <2>1, <2>2 DEF ViewInv, View!ViewTypeOK, LoadingEnds
<1>2. ASSUME NEW q \in Rows, View!Execute(q), submitting' \in BOOLEAN,
             UNCHANGED <<source, every, timers, timer>>
      PROVE  ViewInv'
  BY <1>2, ExecuteKeeps DEF ViewInv, View!ViewTypeOK
<1>3. CASE View!FormSubmits
  BY <1>2, <1>3 DEF View!FormSubmits, View!FormShown
<1>4. CASE Intervals
  <2>1. PICK t \in timers : View!TimerFires(t)
    BY <1>4 DEF Intervals
  <2>2. t.query \in Rows /\ submitting \in BOOLEAN
    BY DEF ViewInv, View!ViewTypeOK
  <2> QED BY <1>2, <2>1, <2>2 DEF View!TimerFires, View!own
<1>5. CASE Answers
  BY <1>5, AnswerKeeps DEF Answers
<1> QED BY <1>1, <1>3, <1>4, <1>5 DEF PageActs

\* A new data source mounts its form or leaves the old one's executions alone.
LEMMA RebindKeeps ==
    ASSUME ViewInv, Rebind
    PROVE  ViewInv'
<1>1. PICK s \in Bound : View!SetSource(s)
  BY DEF Rebind
<1>2. /\ source' \in Rows \cup {None} /\ every' \in BOOLEAN
      /\ submitting' \in BOOLEAN
  BY <1>1, BoundAssumption, ConstantsAssumption
     DEF View!SetSource, ViewInv, View!ViewTypeOK
<1>3. CASE View!FormShown' /\ View!FormMounts
  <2>1. source' \in Rows
    BY <1>3 DEF View!FormShown
  <2> QED BY <1>2, <1>3, <2>1, MountKeeps
<1>4. CASE UNCHANGED <<timers, timer, View!outcome>>
  BY <1>2, <1>4 DEF View!outcome, ViewInv, View!ViewTypeOK, LoadingEnds
<1> QED BY <1>1, <1>3, <1>4 DEF View!SetSource

LEMMA ViewStep == ViewInv /\ [DashboardNext]_allVars => ViewInv'
<1> SUFFICES ASSUME ViewInv, [DashboardNext]_allVars PROVE ViewInv'
  OBVIOUS
<1>1. CASE UNCHANGED view
  BY <1>1 DEF view, ViewInv, View!ViewTypeOK, LoadingEnds
<1>2. CASE View!Follows
  BY <1>2, FollowsKeeps
<1>3. CASE Login \/ logout \/ ProfileEffect \/ Sync
  BY <1>2, <1>3 DEF Login, logout, ProfileEffect, Sync, LoadBoth
<1>4. ASSUME NEW a \in appLoads, AppStep(a) PROVE ViewInv'
  BY <1>1, <1>2, <1>4 DEF AppStep, AppRead, AppRefusal, AppServed, AppOK,
     AppRefused, AppsArrive, AppHttpError
<1>5. CASE Create \/ Update \/ Delete
  BY <1>1, <1>5 DEF Create, Update, Delete, SendsWrite
<1>6. ASSUME NEW w \in writes, WriteMoves(w) PROVE ViewInv'
  BY <1>2, <1>6 DEF WriteMoves
<1>7. ASSUME NEW l \in loads, LoadMoves(l) PROVE ViewInv'
  BY <1>2, <1>7 DEF LoadMoves
<1>8. CASE UNCHANGED allVars
  BY <1>1, <1>8 DEF allVars
<1> QED BY <1>3, <1>4, <1>5, <1>6, <1>7, <1>8, RebindKeeps, PageActsKeep
        DEF DashboardNext

LEMMA ViewStarts == DashboardInit => ViewInv
<1> SUFFICES ASSUME NEW s \in Bound, View!ViewInit(s, TRUE) PROVE ViewInv
  BY DEF DashboardInit
<1>1. 0 \in 0 .. MaxAsked /\ 0 \in 0 .. MaxTimers
  BY BoundAssumption
<1>2. source \in Rows \cup {None}
  BY BoundAssumption, ConstantsAssumption DEF View!ViewInit
<1>3. asked \in [Rows -> 0 .. MaxAsked]
  BY <1>1 DEF View!ViewInit
<1> QED BY <1>1, <1>2, <1>3 DEF View!ViewInit, ViewInv, View!ViewTypeOK, LoadingEnds

\* The session, the apps slice and its loads.
PageTypeOK ==
    /\ session \in {"out", "new", "in"}
    /\ apps \in {"initial", "pending", "success", "failure"}
    /\ appLoads \subseteq AppLoad
    /\ disturbed \in BOOLEAN

LEMMA PageStep ==
    ASSUME TypeOK, PageTypeOK, [DashboardNext]_allVars
    PROVE  PageTypeOK'
<1>1. CASE Login \/ logout
  BY <1>1 DEF Login, logout, PageTypeOK
<1>2. CASE ProfileEffect \/ Sync
  <2>1. LoadBoth /\ session' \in {"out", "new", "in"}
    BY <1>2 DEF ProfileEffect, Sync, PageTypeOK
  <2>2. [no |-> loaded + 1, at |-> "sent"] \in AppLoad
    <3>1. loaded + 1 \in 1 .. MaxLoads
      BY <2>1, ConstantsAssumption DEF LoadBoth, loadRemoteConfigs, TypeOK
    <3> QED BY <3>1 DEF AppLoad
  <2> QED BY <2>1, <2>2 DEF LoadBoth, PageTypeOK
<1>3. ASSUME NEW a \in appLoads, AppStep(a) PROVE PageTypeOK'
  <2>1. \A at \in {"sent", "read", "refused"} : [a EXCEPT !.at = at] \in AppLoad
    BY DEF PageTypeOK, AppLoad
  <2>2. CASE AppRead(a) \/ AppRefusal(a) \/ AppHttpError(a)
    BY <2>1, <2>2 DEF AppRead, AppRefusal, AppServed, AppHttpError, PageTypeOK
  <2>3. CASE AppOK(a) \/ AppRefused(a)
    BY <2>3 DEF AppOK, AppRefused, AppsArrive, PageTypeOK
  <2> QED BY <1>3, <2>2, <2>3 DEF AppStep
<1>4. CASE Create \/ Update \/ Delete
  BY <1>4 DEF Create, Update, Delete, SendsWrite, PageTypeOK
<1>5. ASSUME NEW w \in writes, WriteMoves(w) PROVE PageTypeOK'
  BY <1>5 DEF WriteMoves, PageTypeOK
<1>6. ASSUME NEW l \in loads, LoadMoves(l) PROVE PageTypeOK'
  BY <1>6 DEF LoadMoves, PageTypeOK
<1>7. CASE Rebind \/ PageActs
  BY <1>7 DEF Rebind, PageActs, page, PageTypeOK
<1>8. CASE UNCHANGED allVars
  BY <1>8 DEF allVars, page, PageTypeOK
<1> QED BY <1>1, <1>2, <1>3, <1>4, <1>5, <1>6, <1>7, <1>8 DEF DashboardNext

\* Types of session, slices, page and component, for any number of each.
THEOREM DashboardTypeCorrect == DashboardSpec => []DashboardTypeOK
<1>1. DashboardInit => TypeOK /\ PageTypeOK
  BY TypeInit DEF DashboardInit, PageTypeOK
<1>2. TypeOK /\ PageTypeOK /\ [DashboardNext]_allVars => (TypeOK /\ PageTypeOK)'
  BY SliceStep, TypeStep, PageStep
<1>3. TypeOK /\ PageTypeOK /\ ViewInv => DashboardTypeOK
  BY DEF DashboardTypeOK, PageTypeOK, ViewInv
<1> QED BY <1>1, <1>2, <1>3, ViewStarts, ViewStep, PTL DEF DashboardSpec

\* The loading flag is on only for an execution under way or after an error
\* (RemoteQuery.tsx:87-95), for any number of queries, intervals and executions.
THEOREM FlagEnds == DashboardSpec => []LoadingEnds
<1>1. ViewInv => LoadingEnds
  BY DEF ViewInv
<1> QED BY <1>1, ViewStarts, ViewStep, PTL DEF DashboardSpec
=============================================================================

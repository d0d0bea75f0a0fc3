---------------------------- MODULE ConfigStore ----------------------------
(***************************************************************************)
(* The globalConfig slice of DashboardApp's store: the browser keeps a     *)
(* copy of the table of global configs, loaded as a whole and then kept up *)
(* to date by hand, one local change for every write the server accepts.   *)
(* Nothing orders the calls: a load may be under way while a write is, two *)
(* writes may concern one row, answers come in any order or not at all.    *)
(*                                                                         *)
(* The server (table, used) is modelled from what the client expects of    *)
(* it: it gives a new row a fresh id, applies a call at some time between  *)
(* its being sent and its being answered, or refuses it without effect.    *)
(***************************************************************************)
EXTENDS Integers, Sequences

CONSTANTS
    Rows,         \* ids of global configs
    Present,      \* the rows the table starts with
    Absent,       \* what the table holds of a row that does not exist
    MaxWrites,    \* bound: writes sent in a behaviour
    MaxLoads,     \* bound: loads sent in a behaviour
    Faults        \* what may go wrong, of FaultKinds

\* "refused": Unauthorized or ServerException.  "http": an HttpError.
\* "handler": executeParentTypeEventHandler throws (the parent's config is
\* not JSON, so that it indexes null).
FaultKinds == {"refused", "http", "handler"}

ASSUME ConstantsAssumption ==
    /\ Present \subseteq Rows
    /\ MaxWrites \in Nat /\ MaxLoads \in Nat
    /\ Faults \subseteq FaultKinds
    /\ Absent \notin Nat

VARIABLES
    table,     \* server: the content of every row, or Absent
    used,      \* server: the ids ever given to a row
    status,    \* configs: the RemoteData case
    copies,    \* configs: the contents of the entries with an id, in order
    writes,    \* the writes under way
    written,   \* how many writes were sent
    loads,     \* the loads under way
    loaded,    \* how many loads were sent
    disputed   \* history: rows a race or a fault may have left wrong

server == <<table, used>>
configs == <<status, copies>>
vars == <<table, used, status, copies, writes, written, loads, loaded, disputed>>

\* A content is told apart by the write that made it; 0 was there before.
Contents == 0 .. MaxWrites
Kinds == {"create", "update", "delete"}

\* heard = FALSE: the caller was told of an HttpError while the call was
\* still on its way; the server may yet apply it.
Write == [stamp : 1 .. MaxWrites, kind : Kinds, row : Rows,
          at : {"sent", "applied", "refused"}, heard : BOOLEAN]
\* dirty: the rows a write was under way for while the load was.
Load == [no : 1 .. MaxLoads, at : {"sent", "read", "refused"},
         rows : [Rows -> Contents \cup {Absent}], dirty : SUBSET Rows]

TypeOK ==
    /\ table \in [Rows -> Contents \cup {Absent}]
    /\ used \in SUBSET Rows
    /\ status \in {"initial", "pending", "success", "failure"}
    /\ copies \in [Rows -> Seq(Contents)]
    /\ writes \in SUBSET Write
    /\ written \in 0 .. MaxWrites
    /\ loads \in SUBSET Load
    /\ loaded \in 0 .. MaxLoads
    /\ disputed \in SUBSET Rows

(***************************************************************************)
(* The list.  Only a success holds one: the reducers map over RemoteData.  *)
(***************************************************************************)
NoCopies == [r \in Rows |-> <<>>]
NoRows == [r \in Rows |-> Absent]

\* The entries a load that finds content c of a row gives it.
CopiesOf(c) == IF c = Absent THEN <<>> ELSE <<c>>

\* configsById: the row is in the list.
loadById(r) == status = "success" /\ copies[r] # <<>>

\* insertLocalConfig, updateLocalConfig, rmLocalConfigsById on the entries cs.
Locally(w, cs) ==
    CASE w.kind = "create" -> Append(cs, w.stamp)
      [] w.kind = "update" -> [i \in DOMAIN cs |-> w.stamp]
      [] w.kind = "delete" -> <<>>

\* What the server makes of content c of the row.
Remotely(w, c) ==
    CASE w.kind = "create" -> w.stamp
      [] w.kind = "update" -> IF c = Absent THEN Absent ELSE w.stamp
      [] w.kind = "delete" -> Absent

Writing == {w.row : w \in writes}

----------------------------------------------------------------------------
Init ==
    /\ table = [r \in Rows |-> IF r \in Present THEN 0 ELSE Absent]
    /\ used = Present
    /\ status = "initial" /\ copies = NoCopies
    /\ writes = {} /\ written = 0
    /\ loads = {} /\ loaded = 0
    /\ disputed = {}

(***************************************************************************)
(* Writes: the Execute component's remote-config actions and the effects   *)
(* they call.                                                              *)
(***************************************************************************)
SendWrite(kind, r) ==
    /\ written < MaxWrites
    /\ written' = written + 1
    /\ writes' = writes \cup {[stamp |-> written + 1, kind |-> kind, row |-> r,
                               at |-> "sent", heard |-> TRUE]}
    /\ loads' = {[l EXCEPT !.dirty = @ \cup {r}] : l \in loads}
    /\ disputed' = disputed \cup (Writing \cap {r})
    /\ UNCHANGED <<table, status, copies, loaded>>

\* The parent's row must be in the list; the server will make a fresh id.
createRemoteConfig(r) ==
    /\ status = "success" /\ r \notin used
    /\ used' = used \cup {r}
    /\ SendWrite("create", r)

updateRemoteConfig(r) ==
    /\ loadById(r)
    /\ SendWrite("update", r)
    /\ UNCHANGED used

deleteRemoteConfigs(r) ==
    /\ loadById(r)
    /\ SendWrite("delete", r)
    /\ UNCHANGED used

ServerApplies(w) ==
    /\ w.at = "sent"
    /\ table' = [table EXCEPT ![w.row] = Remotely(w, @)]
    /\ writes' = (writes \ {w}) \cup
                 (IF w.heard THEN {[w EXCEPT !.at = "applied"]} ELSE {})
    /\ disputed' = disputed \cup (IF w.heard THEN {} ELSE {w.row})
    /\ UNCHANGED <<used, configs, written, loads, loaded>>

ServerRefuses(w) ==
    /\ w.at = "sent" /\ "refused" \in Faults
    /\ writes' = (writes \ {w}) \cup
                 (IF w.heard THEN {[w EXCEPT !.at = "refused"]} ELSE {})
    /\ UNCHANGED <<server, configs, written, loads, loaded, disputed>>

\* OK: the local change follows, and does nothing unless there is a list.
WriteOK(w) ==
    /\ w.at = "applied"
    /\ writes' = writes \ {w}
    /\ copies' = IF status = "success"
                 THEN [copies EXCEPT ![w.row] = Locally(w, @)] ELSE copies
    /\ UNCHANGED <<server, status, written, loads, loaded, disputed>>

\* OK, but no local change: the event handler of the parent's type throws
\* before it, or the answer to a create is an empty list.
WriteThrows(w) ==
    /\ w.at = "applied" /\ "handler" \in Faults
    /\ writes' = writes \ {w}
    /\ disputed' = disputed \cup {w.row}
    /\ UNCHANGED <<server, configs, written, loads, loaded>>

\* Mutant: the local change follows whatever the answer is.
WriteRefusedIgnored(w) ==
    /\ w.at = "refused"
    /\ writes' = writes \ {w}
    /\ copies' = IF status = "success"
                 THEN [copies EXCEPT ![w.row] = Locally(w, @)] ELSE copies
    /\ UNCHANGED <<server, status, written, loads, loaded, disputed>>

\* Unauthorized or ServerException: a refused delete drops the whole list.
WriteRefused(w) ==
    /\ w.at = "refused"
    /\ writes' = writes \ {w}
    /\ status' = IF w.kind = "delete" THEN "failure" ELSE status
    /\ copies' = IF w.kind = "delete" THEN NoCopies ELSE copies
    /\ UNCHANGED <<server, written, loads, loaded, disputed>>

\* HttpError: the caller learns nothing of what the server did or will do.
WriteHttpError(w) ==
    /\ w.heard /\ "http" \in Faults
    /\ writes' = (writes \ {w}) \cup
                 (IF w.at = "sent" THEN {[w EXCEPT !.heard = FALSE]} ELSE {})
    /\ disputed' = disputed \cup (IF w.at = "applied" THEN {w.row} ELSE {})
    /\ UNCHANGED <<server, configs, written, loads, loaded>>

(***************************************************************************)
(* Loads                                                                   *)
(***************************************************************************)
\* The list is dropped at once.
loadRemoteConfigs ==
    /\ loaded < MaxLoads
    /\ loaded' = loaded + 1
    /\ status' = "pending" /\ copies' = NoCopies
    /\ loads' = loads \cup {[no |-> loaded + 1, at |-> "sent", rows |-> NoRows,
                             dirty |-> Writing]}
    /\ UNCHANGED <<server, writes, written, disputed>>

ServerReads(l) ==
    /\ l.at = "sent"
    /\ loads' = (loads \ {l}) \cup {[l EXCEPT !.at = "read", !.rows = table]}
    /\ UNCHANGED <<server, configs, writes, written, loaded, disputed>>

ServerRefusesLoad(l) ==
    /\ l.at = "sent" /\ "refused" \in Faults
    /\ loads' = (loads \ {l}) \cup {[l EXCEPT !.at = "refused"]}
    /\ UNCHANGED <<server, configs, writes, written, loaded, disputed>>

LoadOK(l) ==
    /\ l.at = "read"
    /\ loads' = loads \ {l}
    /\ status' = "success"
    /\ copies' = [r \in Rows |-> CopiesOf(l.rows[r])]
    /\ disputed' = l.dirty
    /\ UNCHANGED <<server, writes, written, loaded>>

LoadRefused(l) ==
    /\ l.at = "refused"
    /\ loads' = loads \ {l}
    /\ status' = "failure" /\ copies' = NoCopies
    /\ UNCHANGED <<server, writes, written, loaded, disputed>>

\* HttpError: configs stays as it is, pending perhaps.
LoadHttpError(l) ==
    /\ "http" \in Faults
    /\ loads' = loads \ {l}
    /\ UNCHANGED <<server, configs, writes, written, loaded, disputed>>

WriteStep(w) ==
    \/ ServerApplies(w) \/ ServerRefuses(w) \/ WriteOK(w)
    \/ WriteThrows(w) \/ WriteRefused(w) \/ WriteHttpError(w)

LoadStep(l) ==
    \/ ServerReads(l) \/ ServerRefusesLoad(l)
    \/ LoadOK(l) \/ LoadRefused(l) \/ LoadHttpError(l)

Next ==
    \/ \E r \in Rows : createRemoteConfig(r) \/ updateRemoteConfig(r)
                       \/ deleteRemoteConfigs(r)
    \/ \E w \in writes : WriteStep(w)
    \/ loadRemoteConfigs
    \/ \E l \in loads : LoadStep(l)

Spec == Init /\ [][Next]_vars

----------------------------------------------------------------------------
(***************************************************************************)
(* Properties                                                              *)
(***************************************************************************)
\* The list agrees with the table: whenever there is a list, every row that
\* no write is under way for, and that no race or fault has disputed since the
\* last undisturbed load, is in it exactly as in the table, once or not at
\* all (effects.ts answers, reducers.ts:5-17).  What makes a row disputed is
\* named in the actions: two writes of the row at once, a write and a load at
\* once, an answer that was lost or whose handler threw.  Nothing else does:
\* not the order of answers, not two loads at once, not a write of another
\* row.
ListAgrees ==
    status = "success" =>
        \A r \in Rows \ (disputed \cup Writing) : copies[r] = CopiesOf(table[r])
=============================================================================

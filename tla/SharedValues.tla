----------------------------- MODULE SharedValues -----------------------------
(***************************************************************************)
(* What Variant promises to a program, without wrappers, matchers and ids: *)
(* a handle holds nothing, void, a copy of a value that it shares with the *)
(* handles copied from it, or a reference to storage of the program.  What *)
(* a handle can be read as is a relation between types.  A copy lives as   *)
(* long as a handle holds it, and const storage is not written.            *)
(***************************************************************************)
CONSTANTS
  Storage,     (* where values are                                         *)
  Contents,    (* the values                                               *)
  Handles,     (* the Variants                                             *)
  Types,       (* what values are held and read as                         *)
  ConstTypes,  (* those that do not allow writing                          *)
  Readable,    (* pairs of types: what held as the first reads as          *)
  Null         (* no storage, type or value                                *)

VARIABLES
  store,    (* the storage: the program's, a shared copy, unused or gone   *)
  ref,      (* what each handle holds                                      *)
  answer    (* what the last read handed out, or why it did not            *)

vars == <<store, ref, answer>>

Unused == [state |-> "free", const |-> FALSE, value |-> Null]
Gone   == [state |-> "dead", const |-> FALSE, value |-> Null]

Objects == {s \in Storage : store[s].state = "object"}
Live(s) == store[s].state \in {"object", "owned"}

Nothing    == [holds |-> "nothing", type |-> Null, to |-> Null]
HoldsVoid  == [holds |-> "void", type |-> Null, to |-> Null]
Refusal(e, R) == [error |-> e, type |-> R, to |-> Null]

Init ==
  /\ store = [s \in Storage |-> Unused]
  /\ ref = [h \in Handles |-> Nothing]
  /\ answer = Refusal("None", Null)

(* The program's objects begin, change and end as the program likes. *)
Begin(s) ==
  /\ store[s] = Unused
  /\ \E const \in BOOLEAN, value \in Contents :
       store' = [store EXCEPT ![s] = [state |-> "object", const |-> const, value |-> value]]
  /\ UNCHANGED <<ref, answer>>

End(s) ==
  /\ store' = [store EXCEPT ![s] = Gone]
  /\ UNCHANGED <<ref, answer>>

WriteObject(s) ==
  /\ ~store[s].const
  /\ \E value \in Contents : store' = [store EXCEPT ![s].value = value]
  /\ UNCHANGED <<ref, answer>>

(* Through what was read, only where both it and the storage allow it. *)
WriteRead ==
  /\ answer.to # Null /\ answer.type \notin ConstTypes
  /\ Live(answer.to) /\ ~store[answer.to].const
  /\ \E value \in Contents : store' = [store EXCEPT ![answer.to].value = value]
  /\ UNCHANGED <<ref, answer>>

(* A handle that holds nothing is given void, a copy of an object, a       *)
(* reference to one, or what another handle holds.                         *)
Hold(h, what) == ref' = [ref EXCEPT ![h] = what]

HoldVoid(h) == Hold(h, HoldsVoid) /\ UNCHANGED <<store, answer>>

HoldCopy(h, T, s) ==
  /\ \E own \in Storage :
       /\ store[own] = Unused
       /\ Hold(h, [holds |-> "value", type |-> T, to |-> own])
       /\ store' = [store EXCEPT ![own] =
            [state |-> "owned", const |-> T \in ConstTypes, value |-> store[s].value]]
  /\ UNCHANGED answer

Refer(h, T, s) ==
  /\ store[s].const => T \in ConstTypes
  /\ Hold(h, [holds |-> "reference", type |-> T, to |-> s])
  /\ UNCHANGED <<store, answer>>

Share(from, h) == Hold(h, ref[from]) /\ UNCHANGED <<store, answer>>

(* A copy ends with the last handle that holds it, and with no other. *)
Last(h) == ref[h].holds = "value" /\ \A g \in Handles \ {h} : ref[g].to # ref[h].to

Drop(h) ==
  /\ Hold(h, Nothing)
  /\ store' = IF Last(h) THEN [store EXCEPT ![ref[h].to] = Gone] ELSE store
  /\ UNCHANGED answer

(* Whether a read is answered depends on the two types alone. *)
Read(h, R) ==
  /\ answer' = CASE ref[h].holds = "void"            -> Refusal("IsVoid", R)
                 [] <<ref[h].type, R>> \in Readable  -> [error |-> "None", type |-> R, to |-> ref[h].to]
                 [] OTHER                            -> Refusal("CanNotGet", R)
  /\ UNCHANGED <<store, ref>>

Empty == {h \in Handles : ref[h] = Nothing}

Next ==
  \/ \E h \in Handles \ Empty : Drop(h) \/ \E R \in Types : Read(h, R)
  \/ \E h \in Empty :
       \/ HoldVoid(h)
       \/ \E T \in Types, s \in Objects : HoldCopy(h, T, s) \/ Refer(h, T, s)
       \/ \E from \in Handles \ Empty : Share(from, h)
  \/ \E s \in Storage : Begin(s)
  \/ \E s \in Objects : End(s) \/ WriteObject(s)
  \/ WriteRead

Spec == Init /\ [][Next]_vars
=============================================================================

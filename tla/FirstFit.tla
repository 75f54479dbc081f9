------------------------------- MODULE FirstFit -------------------------------
(***************************************************************************)
(* What Method::Invoke promises to a program, without a loop, wrappers or  *)
(* matchers: a call is answered in one step.  The first function that is   *)
(* not passed over decides, whatever comes behind it: it is run, once, or  *)
(* it is refused and nothing is run.                                       *)
(*                                                                         *)
(* An offer is what matters of the functions and of a call, by index: those *)
(* the call suits, those of them that surely run, those that may be passed *)
(* over and those that want more arguments than there are.                 *)
(***************************************************************************)
EXTENDS Naturals

CONSTANTS
  Refusals,    (* why the deciding function is not run                     *)
  LateErrors   (* what can fail when a function has run                    *)

VARIABLES
  asked,       (* a call is in progress                                    *)
  offer,       (* its functions                                            *)
  ran,         (* the functions that have been run                         *)
  answer       (* what the call returned, or "Undefined"                   *)

vars == <<asked, offer, ran, answer>>

NoOffer == [functions |-> {}, suit |-> {}, sure |-> {}, passable |-> {}, short |-> {}]

Init ==
  /\ asked = FALSE /\ offer = NoOffer
  /\ ran = <<>> /\ answer = "None"

(* What surely runs suits the call and is not passed over. *)
Ask ==
  /\ ~asked /\ answer = "None"
  /\ asked' = TRUE
  /\ offer'.suit \subseteq offer'.functions
  /\ offer'.sure \subseteq offer'.suit \ offer'.passable
  /\ UNCHANGED <<ran, answer>>

Decides(i) ==
  /\ i \in offer.functions
  /\ \A j \in offer.functions : j < i => j \in offer.passable

Answer(o) == asked /\ asked' = FALSE /\ answer' = o /\ UNCHANGED offer

Run(i) ==
  /\ Decides(i) /\ i \in offer.suit
  /\ ran' = <<i>>
  /\ \/ Answer("Success")
     \/ i \notin offer.sure /\ \E e \in LateErrors : Answer(e)

Refuse(i) ==
  /\ Decides(i) /\ i \notin offer.sure
  /\ \E e \in Refusals : Answer(e)
  /\ UNCHANGED ran

(* A list that is too short is read past its end. *)
ReadPastEnd(i) == Decides(i) /\ i \in offer.short /\ Answer("Undefined") /\ UNCHANGED ran

NoneFits ==
  /\ offer.functions \subseteq offer.passable
  /\ Answer("NoCompatibleFunctionFound")
  /\ UNCHANGED ran

Next ==
  \/ Ask
  \/ \E i \in offer.functions : Run(i) \/ Refuse(i) \/ ReadPastEnd(i)
  \/ NoneFits

Spec == Init /\ [][Next]_vars
=============================================================================

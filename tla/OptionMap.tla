------------------------------- MODULE OptionMap -------------------------------
(* What a list of options promises its one caller: one value for each name, the *)
(* last one that was set.                                                       *)
CONSTANTS Names, Values, NoValue

VARIABLES
  option,   \* by name
  call      \* << >>, or what is being set, with a third element when it is

Init ==
  /\ option = [n \in Names |-> NoValue]
  /\ call = << >>

Call(n, v) ==
  /\ call = << >>
  /\ call' = <<n, v>>
  /\ UNCHANGED option

\* Together with the return, or before it.
Set(n, v) ==
  /\ call = <<n, v>>
  /\ option' = [option EXCEPT ![n] = v]
  /\ call' \in {<<n, v, "set">>, << >>}

Return(n, v) ==
  /\ call = <<n, v, "set">>
  /\ call' = << >>
  /\ UNCHANGED option

\* Only a new name can be refused.
Refuse(n, v) ==
  /\ call = <<n, v>>
  /\ option[n] = NoValue
  /\ call' = << >>
  /\ UNCHANGED option

Next == \E n \in Names, v \in Values : Call(n, v) \/ Set(n, v) \/ Return(n, v) \/ Refuse(n, v)

Spec == Init /\ [][Next]_<<option, call>>
================================================================================

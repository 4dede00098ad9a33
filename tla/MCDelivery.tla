----------------------------- MODULE MCDelivery -----------------------------
(***************************************************************************)
(* The instance TLC checks:  { ... @defer { ... @defer { } s @stream { } } *)
(* list { f { ... @defer { } } } t @stream }: a fragment with another one  *)
(* and a streamed list in it, an object with a fragment below an item of a *)
(* plain list, and two streamed items, of which the first has a fragment.  *)
(***************************************************************************)
EXTENDS Delivery

CONSTANTS f, s, t, x, outer, inner, below, within

MCPositions == {f, s, t, x}
MCSetups == {[encoder |-> "sse", adapter |-> "asgi"], [encoder |-> "multipart", adapter |-> "loop"],
             [encoder |-> "multipart", adapter |-> "asgi"]}
MCLength == [l \in {s, t} |-> IF l = s THEN 1 ELSE 2]
MCUnder == [p \in MCPositions |->
  IF p = s THEN Defer(outer) ELSE IF p = x THEN Item(t, 1) ELSE Data]
MCDeferrals == [y \in MCPositions \cup Jobs |->
  IF y = Data THEN <<outer>> ELSE IF y = Defer(outer) THEN <<inner>>
  ELSE IF y = f THEN <<below>> ELSE IF y = x THEN <<within>> ELSE <<>>]
=============================================================================

--------------------------- MODULE MCAudioStream ---------------------------
(* Uses of AudioStream on two devices and two logical devices. *)
EXTENDS AudioStream

CONSTANTS d1, d2, l1, l2, s1, s2

(* Both logical devices on one device, and streams bound two at a time ... *)
Together == [phys |-> (l1 :> d1 @@ l2 :> d1), streams |-> {s1, s2}, odd |-> {},
             arrays |-> {<<s1>>, <<s1, s2>>}]
(* ... or each on its own, and a stream that moves between them.           *)
Apart == [phys |-> (l1 :> d1 @@ l2 :> d2), streams |-> {s1}, odd |-> {},
          arrays |-> {<<s1>>}]
(* Two threads unbind the same stream at the same time, or one unbinds a   *)
(* stream that is not bound.                                               *)
Careless == [Apart EXCEPT !.odd = {"unbound"}]

AllUses == {Together, Apart, Careless}
CarelessUses == {Careless}
=============================================================================

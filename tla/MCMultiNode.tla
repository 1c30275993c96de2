----------------------------- MODULE MCMultiNode -----------------------------
(* Profiles with accounts of their own, with the same ones, and with some of them. *)
EXTENDS MultiNode

Accounts(rw, ro, na) ==
  [r \in Role |-> CASE r = "readwrite" -> rw [] r = "readonly" -> ro [] OTHER -> na]
MCAccount == [p \in Profiles |->
  CASE p = "rw2"   -> Accounts("rw2", "ro2", "na2")
    [] p = "mixed" -> Accounts("rw3", "ro1", "na3")
    [] OTHER       -> Accounts("rw1", "ro1", "na1")]
MCAuthLists ==
  {<<"default", "rw2">>, <<"default", "alias", "rw2">>, <<"default", "mixed", "rw2">>, <<>>}
=============================================================================

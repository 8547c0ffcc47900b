---------------------------- MODULE MCProvision ----------------------------
(***************************************************************************)
(* Small instances of Provision for TLC: every declaration of an ordinary  *)
(* parameter with every value; every declaration of a secret one after a   *)
(* secret that is always generated; a template with a parameter that has   *)
(* no name.                                                                *)
(***************************************************************************)
EXTENDS Provision

Supplied == {"absent", "nil", "empty", "text", "digits", "number", "bool"}

Plain == [named: {TRUE}, type: {"string", "int", "bool", "other"}, required: BOOLEAN,
          generate: {FALSE}, default: {"absent", "digits"}]

Secrets == [named: {TRUE}, type: {"secret"}, required: BOOLEAN, generate: BOOLEAN,
            default: {"absent", "text"}]

Generated == [named |-> TRUE, type |-> "secret", required |-> TRUE, generate |-> TRUE, default |-> "absent"]

Nameless == [Generated EXCEPT !.named = FALSE]

Requests ==
  {[parameters |-> <<Generated, Nameless>>, supplied |-> <<"absent", "text">>, uses |-> {1}]}
  \cup
  {[parameters |-> <<p>>, supplied |-> <<v>>, uses |-> {1}] : p \in Plain, v \in Supplied}
  \cup
  {[parameters |-> <<Generated, p>>, supplied |-> <<"absent", v>>, uses |-> u] :
     p \in Secrets, v \in {"absent", "nil", "text", "number"}, u \in {{1}, {1, 2}}}
=============================================================================

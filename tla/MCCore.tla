------------------------------- MODULE MCCore -------------------------------
(***************************************************************************)
(* A small Core for TLC: the system tenant with its pending service, one   *)
(* other tenant with one row of everything, and room for one more of each. *)
(***************************************************************************)
EXTENDS Core

ATenant(life, name, system) ==
  [life |-> life, name |-> name, is_system |-> system, val |-> "v0"]
AnOwned(life) == [life |-> life, tenant |-> "t1", name |-> "n1", val |-> "v0"]
AService(life) ==
  [life |-> life, tenant |-> "t0", name |-> "n1", kind |-> "n1", is_system |-> TRUE,
   status |-> "pending", stamped |-> FALSE]

OneOfEach ==
  {[tenants |-> [t0 |-> ATenant("live", "n0", TRUE), t1 |-> ATenant("live", "n1", FALSE),
                 t2 |-> ATenant("absent", "n1", FALSE)],
    projects |-> [p1 |-> AnOwned("live"), p2 |-> AnOwned("absent")],
    providers |-> [v1 |-> AnOwned("live"), v2 |-> AnOwned("absent")],
    services |-> [s1 |-> AService("live"), s2 |-> AService("absent")],
    agents |-> [a1 |-> CreateAgent(AbsentAgent), a2 |-> AbsentAgent],
    resources |-> [r1 |-> CreateResource(AbsentRow), r2 |-> AbsentRow],
    own |-> [a1 |-> [of |-> "t1", name |-> "n1"], a2 |-> [of |-> "t1", name |-> "n1"],
             r1 |-> [of |-> "p1", name |-> "n1"], r2 |-> [of |-> "p1", name |-> "n1"]]]}

\* A token shorter than the skew, a longer one, and one of unstated lifetime.
ThreeGrants == {[said |-> 4, real |-> 4], [said |-> 6, real |-> 6], [said |-> 0, real |-> 5]}
=============================================================================

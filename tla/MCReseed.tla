------------------------------ MODULE MCReseed ------------------------------
(* Small instances of Reseed for TLC. *)
EXTENDS Reseed

CONSTANTS ip, casey, alex, p1, h1, p2, h2, bug, billing, r1, x1, x2

MCPasswords == {p1, p2}
MCHashOf == p1 :> h1 @@ p2 :> h2

Account(email, role) == [email |-> email, hash |-> h1, role |-> role]
MCUsers == <<Account(casey, "customer"), Account(alex, "agent")>>
MCScriptUsers == Range(MCUsers)
MCTags == <<bug>>
MCLinks == {<<1, 1>>}

Sign(op, email, password) == [op |-> op, client |-> ip, email |-> email,
                              password |-> password, valid |-> TRUE, fits |-> TRUE]

\* Both seeded users sign in; somebody registers the e-mail of one of them.
MCAuthCalls == {Sign("login", casey, p1), Sign("login", alex, p1),
                Sign("register", alex, p2)}

Tag(op, id, name) == [op |-> op, client |-> ip, id |-> id, name |-> name, valid |-> TRUE]

MCTagCalls ==
  {Tag("create", Null, billing), Tag("delete", 2, Null)}
=============================================================================

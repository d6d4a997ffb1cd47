------------------------------ MODULE MCAccess ------------------------------
(* Small instances of RateLimiter, Accounts and Tags for TLC. *)
EXTENDS Tags, TLC

CONSTANTS ip, ada, kim, p1, p2, p3, h1, h2, bug, billing, r1, r2, x1, x2

MCPasswords == {p1, p2, p3}
\* The first two are the same in all the bytes bcrypt reads.
MCHashOf == p1 :> h1 @@ p2 :> h1 @@ p3 :> h2

\* One agent; a customer may register.
MCUsers == <<[email |-> ada, hash |-> h1, role |-> "agent"]>>

Sign(op, email, password) == [op |-> op, client |-> ip, email |-> email,
                              password |-> password, valid |-> TRUE, fits |-> TRUE]

\* The agent signs in, rightly and wrongly; two people want one e-mail, one of
\* them somebody else's; a body is invalid, an e-mail too long.
MCAuthCalls ==
  {Sign("login", ada, p2), Sign("login", ada, p3), Sign("login", kim, p3),
   Sign("register", kim, p1), Sign("register", kim, p3), Sign("register", ada, p3),
   [Sign("login", ada, p1) EXCEPT !.valid = FALSE],
   [Sign("register", kim, p1) EXCEPT !.fits = FALSE]}

\* Signing in and registering, for a run about limits.
TwoAuthCalls == {Sign("login", ada, p1), Sign("register", kim, p3)}

MCTags == <<bug>>
NoLinks == {}
OneLink == {<<1, 1>>}

Tag(op, id, name) == [op |-> op, client |-> ip, id |-> id, name |-> name, valid |-> TRUE]

\* One change of a tag, by whoever holds a token; for a run about accounts.
OneTagCall == {Tag("patch", 1, billing)}

\* Every operation on tags; a name two requests want, a tag two requests remove.
AllTagCalls ==
  {Tag("list", Null, Null), Tag("get", 2, Null), Tag("create", Null, billing),
   Tag("patch", 1, billing), Tag("patch", 2, bug), Tag("delete", 1, Null),
   Tag("delete", 2, Null), Tag("delete", TooBig, Null), [Tag("create", Null, bug) EXCEPT !.valid = FALSE]}

AccessSymmetry == Permutations({r1, r2}) \cup Permutations({x1, x2})
=============================================================================

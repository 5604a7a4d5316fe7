------------------------------ MODULE MCLogin ------------------------------
(* Small instances of LoginSystem for TLC. *)
EXTENDS LoginSystem

CONSTANTS c1, c2, c3, ann, bob, secret, other, odd

LoginAs(n, p)  == [svc |-> 0, name |-> n, pw |-> p]
SignupAs(n, p) == [svc |-> 1, name |-> n, pw |-> p]

AnnKnown  == [s \in Strings |-> IF s = ann THEN Hash(secret) ELSE None]

\* The one name a query does not take literally.
AllButOdd == Strings \ {odd}

\* A user logs in or signs up, under a known or an unknown name, and the first
\* under the odd one too.
AnyRequest == [d \in Clients |->
    {LoginAs(ann, secret), LoginAs(ann, other), LoginAs(bob, other), SignupAs(bob, other)}
        \cup (IF d = c1 THEN {LoginAs(odd, secret)} ELSE {})]

\* Logins only: by two known users, with a right and with wrong passwords, and
\* under the odd name.
TwoKnown  == [s \in Strings |-> CASE s = ann -> Hash(secret)
                                  [] s = bob -> Hash(other)
                                  [] OTHER -> None]
LoginsOnly == [d \in Clients |->
    CASE d = c1 -> {LoginAs(ann, secret), LoginAs(ann, other)}
      [] d = c2 -> {LoginAs(bob, secret)}
      [] OTHER  -> {LoginAs(odd, secret)}]

\* Two users log in under their names with the same password, one signs up.
LoginsAndSignup == [d \in Clients |->
    CASE d = c1 -> {LoginAs(ann, secret)}
      [] d = c2 -> {LoginAs(bob, secret)}
      [] OTHER  -> {SignupAs(bob, other)}]

============================================================================

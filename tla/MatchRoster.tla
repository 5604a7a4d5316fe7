---------------------------- MODULE MatchRoster ----------------------------
(***************************************************************************)
(* The roster of a match server: the ratings of its clients, and a running *)
(* average, which is computed as a difference of ints divided by a size_t. *)
(* A negative difference becomes a large unsigned number, whose quotient   *)
(* does not fit the int it is cast to: what serverELO holds then is        *)
(* undefined.                                                              *)
(***************************************************************************)
EXTENDS Integers, Sequences, FiniteSetsExt

CONSTANTS
    Ratings,           \* ratings that clients have
    Undefined,         \* what a computation without a result leaves
    CLIENTSPERSERVER   \* 10

ASSUME RosterAssumption ==
    /\ Ratings \subseteq Int /\ Undefined \notin Int
    /\ CLIENTSPERSERVER \in Nat \ {0}

VARIABLES
    clients,     \* the ratings of the clients
    serverELO    \* the server's rating, an int or Undefined

rosterVars == <<clients, serverELO>>

RosterTypeOK ==
    /\ clients \in Seq(Ratings) /\ Len(clients) <= CLIENTSPERSERVER
    /\ serverELO \in Int \cup {Undefined}

\* The constructor does not set serverELO.
RosterInit == clients = <<>> /\ serverELO = Undefined

\* The variant that adds a share of the value instead of a share of the difference.
AverageGrows(newValue, size) ==
    IF size = 1 THEN newValue ELSE serverELO + newValue \div size

recalculateELO(newValue, size) ==
    IF size = 1 THEN newValue
    ELSE IF serverELO = Undefined \/ newValue < serverELO THEN Undefined
    ELSE serverELO + (newValue - serverELO) \div size

\* The variant that lets one client too many in.
addClientLate(rating) ==
    IF Len(clients) > CLIENTSPERSERVER
    THEN UNCHANGED rosterVars
    ELSE /\ clients' = Append(clients, rating)
         /\ serverELO' = recalculateELO(rating, Len(clients) + 1)

\* A client that does not fit is turned away.
addClient(rating) ==
    IF Len(clients) = CLIENTSPERSERVER
    THEN UNCHANGED rosterVars
    ELSE /\ clients' = Append(clients, rating)
         /\ serverELO' = recalculateELO(rating, Len(clients) + 1)

----------------------------------------------------------------------------

Lowest(seq)  == Min({seq[i] : i \in DOMAIN seq})
Highest(seq) == Max({seq[i] : i \in DOMAIN seq})

\* As long as the rating is defined it lies between those of the weakest and of
\* the strongest client, although it is not their average (35-47); and it is
\* defined only as long as nobody joins who is weaker than the rating.
RatingWithin ==
    clients # <<>> /\ serverELO # Undefined =>
        /\ Lowest(clients) <= serverELO /\ serverELO <= Highest(clients)
        /\ \A i \in DOMAIN clients : clients[1] <= clients[i]

=============================================================================

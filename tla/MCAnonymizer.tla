---------------------------- MODULE MCAnonymizer ----------------------------
(***************************************************************************)
(* Instances of Anonymizer for TLC.                                        *)
(***************************************************************************)
EXTENDS Anonymizer, TLC

CONSTANTS g1, g2, g3, g4, p1, p2, p3, p4, nobody

\* Two banks that keep their mosaics to themselves although they share a
\* pepper, and two that derive regional ones from that pepper.
FourGateways == {g1, g2, g3, g4}
Salts    == (g1 :> <<"s1">>) @@ (g2 :> <<"s2">>) @@ (g3 :> <<"s3">>) @@ (g4 :> <<"s4">>)
Peppers  == [g \in Gateways |-> <<"p">>]
Keyings  == [g \in Gateways |-> IF g \in {g3, g4} THEN "regional" ELSE "bank"]

Characters == {" ", "-", ".", "|", "a", "b", "A", "B", "s1", "s2", "s3", "s4", "p"}
                  \cup {"v3|id|", "v3|local|", "v2|sigid|"}

Base == [person |-> p1, payee |-> nobody,
         id |-> <<"a">>, name |-> <<"a", " ", "b">>, nationalID |-> <<>>,
         counterpartyID |-> <<>>, counterpartyNationalID |-> <<>>,
         transactionRef |-> <<>>, signalType |-> "", amount |-> 500,
         account |-> <<"a">>, device |-> <<>>, deviceHash |-> <<>>,
         place |-> [kind |-> "absent"], time |-> [minutes |-> 900, offset |-> 0]]

\* The identifiers as people type them, with the person they belong to.
TypedIDs == {<<p1, <<"a", "b">>>>, <<p1, <<"A", "-", "b", " ">>>>, <<p2, <<"b", "a">>>>}

Senders == {[Base EXCEPT !.person = t[1], !.nationalID = t[2]] : t \in TypedIDs}
               \cup {Base, [Base EXCEPT !.person = p2, !.name = <<"b">>, !.device = <<"a">>]}

Payments(s) ==
    {s, [s EXCEPT !.payee = p2, !.counterpartyID = <<"b">>]}
        \cup {[s EXCEPT !.payee = t[1], !.counterpartyNationalID = t[2]] : t \in TypedIDs}

References == {<<" ">>, <<"a">>, <<"A">>, <<"a", " ">>, <<"a", "-", "b">>, <<"a", "b">>, <<"a", ".">>}
Places == {[kind |-> "half"]}
             \cup [kind : {"point"}, lat : {0, 1, 3, 4, 8}, lon : {0, 1, 7, 8, 9, 16}]
Times == {[minutes |-> 907, offset |-> 0], [minutes |-> 967, offset |-> 60],
          [minutes |-> 907, offset |-> 20], [minutes |-> 914, offset |-> 0 - 1]}
Types == {"LOGIN", "login", "survey"}
Amounts == {501, 9500, 10001}

\* Customers without a national ID, as clerks type them; the last one shows
\* that the delimiter itself is accepted.
CustomersTyped ==
    {<<p1, <<"A", ".">>, <<" ", "a", " ", " ", "B">>>>,
     <<p3, <<"a", "a">>, <<"b">>>>, <<p3, <<"a", "-", "A">>, <<"b", " ">>>>,
     <<p4, <<"a">>, <<"a", "b">>>>, <<p4, <<"a", "|">>, <<"b">>>>}
CustomerInputs ==
    {[Base EXCEPT !.person = t[1], !.id = t[2], !.name = t[3]] : t \in CustomersTyped}

PeopleInputs == UNION {Payments(s) : s \in Senders}
FeatureInputs ==
    {[Base EXCEPT !.transactionRef = ref] : ref \in References}
        \cup {[Base EXCEPT !.place = pl, !.deviceHash = <<"b">>] : pl \in Places}
        \cup {[Base EXCEPT !.time = t] : t \in Times}
        \cup {[Base EXCEPT !.signalType = ty, !.name = <<" ">>] : ty \in Types}
        \cup {[Base EXCEPT !.amount = n, !.signalType = "LOGIN"] : n \in Amounts}
AllInputs == PeopleInputs \cup CustomerInputs \cup FeatureInputs

\* The hypotheses of the theorems hold of this instance.
ASSUME HypothesesHold == IDsNamePeople /\ CustomersAreTold /\ SecretsApart

=============================================================================

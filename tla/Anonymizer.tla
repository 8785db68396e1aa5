----------------------------- MODULE Anonymizer -----------------------------
(***************************************************************************)
(* AnonymizeSignal of internal/processor/anonymizer.go: which signals can  *)
(* be told apart, joined or traced to a person once they have left the     *)
(* gateways.  The vendor collects what several gateways send.              *)
(*                                                                         *)
(* A text is a sequence of characters of a small alphabet, because the     *)
(* properties are about separators and delimiters.  HMAC-SHA256 is ideal:  *)
(* equal values come from equal keys and messages.  The ip fields, treated *)
(* as the device fields are, and the fields copied as they are (branch,    *)
(* endpoint type, versions, institution) are left out.                     *)
(***************************************************************************)
EXTENDS Integers, Sequences, FiniteSets

CONSTANTS
    Alphabet,    \* characters; the fixed prefix of a message counts as one
    Gateways,
    Salt,        \* BANK_SALT of each gateway, a text
    Pepper,      \* REGIONAL_PEPPER of each gateway, "" as <<>>
    Keying,      \* MosaicKeying of each gateway
    Threshold,   \* the reporting threshold, 0 when none is set
    Precision,   \* GeohashPrecision
    Inputs,      \* requests, as RawData records
    MaxSent      \* bound: signals sent

ASSUME AnonymizerAssumption ==
    /\ Keying \in [Gateways -> {"bank", "regional"}]
    /\ {Threshold, Precision, MaxSent} \subseteq Nat /\ Precision > 0
    /\ \A g, h \in Gateways : g # h => Salt[g] # Salt[h]
    \* validateStartup refuses regional keying without a pepper.
    /\ \A g \in Gateways : Salt[g] # <<>> /\ (Keying[g] = "regional" => Pepper[g] # <<>>)
    /\ {"|", "A", "B", "v3|id|", "v3|local|", "v2|sigid|"} \subseteq Alphabet
    /\ \A g \in Gateways : {Salt[g], Pepper[g]} \subseteq Seq(Alphabet)

VARIABLE sent    \* history: what the vendor holds, with the request behind it

-----------------------------------------------------------------------------
(* Texts                                                                     *)

Separators == {" ", "-", "."}
Upper(c) == CASE c = "a" -> "A" [] c = "b" -> "B" [] OTHER -> c
Uppercase(s) == [i \in DOMAIN s |-> Upper(s[i])]

Blank(s) == \A i \in DOMAIN s : s[i] = " "

\* The characters of s at the positions in kept.
Keep(s, kept) ==
    [n \in 1 .. Cardinality(kept) |->
        s[CHOOSE i \in kept : Cardinality({j \in kept : j <= i}) = n]]

\* strings.TrimSpace: what lies between two characters that are not blank.
Trim(s) ==
    LET words == {i \in DOMAIN s : s[i] # " "}
    IN  Keep(s, {i \in DOMAIN s : \E a, b \in words : a <= i /\ i <= b})

NormalizeIDDashes(s) == Uppercase(Keep(s, {i \in DOMAIN s : s[i] \notin {" ", "."}}))
                              \* variant: dashes are kept

NormalizeID(s) == Uppercase(Keep(s, {i \in DOMAIN s : s[i] \notin Separators}))

\* strings.Fields, joined again: of the spaces after a word one is kept, but none
\* after the last.
NormalizeName(s) ==
    LET words == {i \in DOMAIN s : s[i] # " "}
    IN  Uppercase(Keep(s, {i \in DOMAIN s :
                              i \in words \/ (i - 1 \in words /\ \E j \in words : i < j)}))

-----------------------------------------------------------------------------
(* Keyed hashes                                                              *)

HMACHash(key, message) == [key |-> key, message |-> message]

\* Variant: the salt is left out when there is a pepper.
PepperOnly(salt, pepper) == IF pepper = <<>> THEN salt ELSE pepper

mosaicKeyMaterial(salt, pepper) ==
    IF pepper = <<>> THEN salt ELSE salt \o <<"|">> \o pepper

NationalIDMosaic(g, nid) ==
    IF Keying[g] = "regional"
    THEN [hash |-> HMACHash(Pepper[g], <<"v3|id|">> \o nid),
          scope |-> "regional", basis |-> "national_id"]
    ELSE [hash |-> HMACHash(mosaicKeyMaterial(Salt[g], Pepper[g]), <<"v3|id|">> \o nid),
          scope |-> "bank", basis |-> "national_id"]

LocalMosaic(g, text) ==
    [hash |-> HMACHash(mosaicKeyMaterial(Salt[g], Pepper[g]), <<"v3|local|">> \o text),
     scope |-> "bank", basis |-> "internal_id_fallback"]

\* Variant: nothing stands between the identifier and the name.
IdentityConcatenated(g, raw) ==
    LET nid == NormalizeID(raw.nationalID)
    IN  IF nid # <<>> THEN NationalIDMosaic(g, nid)
        ELSE LocalMosaic(g, NormalizeID(raw.id) \o NormalizeName(raw.name))

IdentityMosaic(g, raw) ==
    LET nid == NormalizeID(raw.nationalID)
    IN  IF nid # <<>> THEN NationalIDMosaic(g, nid)
        ELSE LocalMosaic(g, NormalizeID(raw.id) \o <<"|">> \o NormalizeName(raw.name))

NoMosaic == [hash |-> <<>>, scope |-> "", basis |-> ""]

\* Variant: the counterparty's identifier is taken as it was sent.
DestinationUnnormalized(g, raw) ==
    IF raw.counterpartyNationalID # <<>>
    THEN NationalIDMosaic(g, raw.counterpartyNationalID)
    ELSE IF raw.counterpartyID # <<>> THEN LocalMosaic(g, NormalizeID(raw.counterpartyID))
    ELSE NoMosaic

DestinationMosaic(g, raw) ==
    LET cn == NormalizeID(raw.counterpartyNationalID)
    IN  IF cn # <<>> THEN NationalIDMosaic(g, cn)
        ELSE IF raw.counterpartyID # <<>> THEN LocalMosaic(g, NormalizeID(raw.counterpartyID))
        ELSE NoMosaic

\* Variant: references are normalized like identifiers.
SignalIDNormalized(g, raw, fallback) ==
    IF Blank(raw.transactionRef) THEN [random |-> fallback]
    ELSE HMACHash(Salt[g], <<"v2|sigid|">> \o NormalizeID(raw.transactionRef))

\* The fallback comes from NewSignalID, called by processTransaction just
\* before: random, so never the same twice.
SignalID(g, raw, fallback) ==
    IF Blank(raw.transactionRef) THEN [random |-> fallback]
    ELSE HMACHash(Salt[g], <<"v2|sigid|">> \o Trim(raw.transactionRef))

-----------------------------------------------------------------------------
(* Features                                                                  *)

MapToTier(amount) ==
    CASE amount <= 500   -> 1
      [] amount <= 2500  -> 2
      [] amount <= 10000 -> 3
      [] OTHER           -> 4

NearThreshold(amount) == Threshold > 0 /\ 100 * amount >= 95 * Threshold

TwoTo[n \in Nat] == IF n = 0 THEN 1 ELSE 2 * TwoTo[n - 1]

\* The geohash cuts the map into TwoTo[LonBits] by TwoTo[LatBits] cells.  A
\* place is [kind |-> "point", lat, lon] in half cells from the south west, or
\* of kind "absent", or "half" when only one coordinate was sent.
LonBits == (5 * Precision + 1) \div 2
LatBits == (5 * Precision) \div 2

\* Validate refuses a point off the map; it is not among the Inputs.
ASSUME InputsAssumption ==
    \A raw \in Inputs :
        /\ {raw.id, raw.name, raw.nationalID, raw.transactionRef, raw.counterpartyID,
            raw.counterpartyNationalID} \subseteq Seq(Alphabet)
        /\ {raw.time.minutes, raw.time.offset} \subseteq Int
        /\ raw.place.kind = "point" => raw.place.lat \in 0 .. TwoTo[LatBits + 1]
                                      /\ raw.place.lon \in 0 .. TwoTo[LonBits + 1]

\* One turn of Geohash's loop for one coordinate: a bit is set for the upper
\* half of the interval that holds x.
Half(x, cut) ==
    LET mid == (cut.from + cut.to) \div 2
    IN  IF x >= mid THEN [from |-> mid, to |-> cut.to, bits |-> Append(cut.bits, 1)]
        ELSE [from |-> cut.from, to |-> mid, bits |-> Append(cut.bits, 0)]

\* What is left of 0 .. size after any number of turns.
Cuts(x, size) ==
    LET cut[k \in Nat] == IF k = 0 THEN [from |-> 0, to |-> size, bits |-> <<>>]
                          ELSE Half(x, cut[k - 1])
    IN  cut

Bisect(x, size, n) == Cuts(x, size)[n].bits

\* Variant: longitude and latitude take turns the other way round.
GeohashSwapped(lat, lon) ==
    <<Bisect(lon, TwoTo[LonBits + 1], LatBits), Bisect(lat, TwoTo[LatBits + 1], LonBits)>>

\* The interleaving of the bits and the base 32 digits lose nothing.
Geohash(lat, lon) ==
    <<Bisect(lon, TwoTo[LonBits + 1], LonBits), Bisect(lat, TwoTo[LatBits + 1], LatBits)>>

\* <<>> for ZONE_UNKNOWN.
Zone(place) == IF place.kind = "point" THEN Geohash(place.lat, place.lon) ELSE <<>>

\* Variant: the offset is dropped, not applied.
BucketLocal(time) == (time.minutes \div 15) * 15

\* Minutes since some midnight, in the local time of the offset.
BucketTimestamp(time) == ((time.minutes - time.offset) \div 15) * 15

-----------------------------------------------------------------------------
(* Validate and processTransaction                                           *)

SignalTypes == [transaction |-> "transaction", login |-> "login", LOGIN |-> "login"]

Opaque(ref) == \A i \in DOMAIN ref : ref[i] \notin {" ", ".", "|"}

\* Timestamps that do not parse are refused; they are not among the Inputs.
Validate(raw) ==
    /\ ~Blank(raw.id) /\ ~Blank(raw.name) /\ ~Blank(raw.account)
    /\ raw.amount > 0
    /\ raw.place.kind # "half"
    /\ Opaque(Trim(raw.transactionRef))
    /\ raw.signalType \in {""} \cup DOMAIN SignalTypes

AnonymizeSignal(g, raw, fallback) ==
    [signalID    |-> SignalID(g, raw, fallback),
     signalType  |-> IF raw.signalType = "" THEN "transaction" ELSE SignalTypes[raw.signalType],
     identity    |-> IdentityMosaic(g, raw),
     destination |-> DestinationMosaic(g, raw),
     timestamp   |-> BucketTimestamp(raw.time),
     tier        |-> MapToTier(raw.amount),
     near        |-> NearThreshold(raw.amount),
     zone        |-> Zone(raw.place),
     account     |-> HMACHash(Salt[g], <<"v3|account|">> \o raw.account),
     device      |-> IF raw.deviceHash # <<>> THEN [asSent |-> raw.deviceHash]
                     ELSE IF raw.device # <<>> THEN HMACHash(Salt[g], <<"v3|device|">> \o raw.device)
                     ELSE [absent |-> TRUE]]

Init == sent = {}

Send(g, raw) ==
    /\ Validate(raw)
    /\ Cardinality(sent) < MaxSent
    /\ sent' = sent \cup {[by |-> g, raw |-> raw,
                           signal |-> AnonymizeSignal(g, raw, Cardinality(sent))]}

Next == \E g \in Gateways, raw \in Inputs : Send(g, raw)

Spec == Init /\ [][Next]_sent

-----------------------------------------------------------------------------
(* What the code relies on and cannot check.  Each input says whom it is     *)
(* about (person, payee), which the code never sees.  What people take for    *)
(* the same text is stated without the code's normal forms.                   *)

Undelimited(s) == \A i \in DOMAIN s : s[i] # "|"

\* Ways to read one text for another: the characters at K, in their order, for
\* those at M, but for their case.
Readings(s, K, t, M) ==
    {f \in [K -> M] :
        /\ \A m \in M : \E i \in K : f[i] = m
        /\ \A i \in K : Upper(s[i]) = Upper(t[f[i]])
        /\ \A i, j \in K : i < j => f[i] < f[j]}

\* Identifiers are read without spaces, dashes and dots.
Figures(s) == {i \in DOMAIN s : s[i] \notin {" ", "-", "."}}
SameID(s, t) == Readings(s, Figures(s), t, Figures(t)) # {}

\* Names are read word by word: how many spaces part two words is no matter.
Letters(s) == {i \in DOMAIN s : s[i] # " "}
Parted(s, i, j) == \E k \in i .. j : s[k] = " "
SameName(s, t) ==
    \E f \in Readings(s, Letters(s), t, Letters(t)) :
        \A i, j \in Letters(s) : i < j => (Parted(s, i, j) <=> Parted(t, f[i], f[j]))

\* However it is typed, a national ID names one person, who has no other.
IDsNamePeople ==
    LET IDs == {id \in {<<q.nationalID, q.person>> : q \in Inputs}
                          \cup {<<q.counterpartyNationalID, q.payee>> : q \in Inputs} :
                   Figures(id[1]) # {}}
    IN  \A i, j \in IDs : SameID(i[1], j[1]) <=> i[2] = j[2]

\* Nor do identifier and name together name two customers, or a customer twice.
CustomersAreTold ==
    LET Customers == {c \in Inputs : Validate(c) /\ Figures(c.nationalID) = {}
                                      /\ Undelimited(c.id) /\ Undelimited(c.name)}
    IN  \A q, r \in Customers :
            SameID(q.id, r.id) /\ SameName(q.name, r.name) <=> q.person = r.person

\* Salts and peppers are free of the delimiter that joins them, and nobody's
\* salt is another's pepper.
SecretsApart ==
    /\ \A g \in Gateways : Undelimited(Salt[g]) /\ Undelimited(Pepper[g])
    /\ \A g, h \in Gateways : g # h => Salt[g] # Pepper[h]

-----------------------------------------------------------------------------
(* Properties                                                                *)

\* Mosaics the vendor may compare, as their scopes say: those of one gateway,
\* and regional ones of gateways that share a pepper.
Comparable(x, m, y, n) ==
    /\ m.basis = "national_id" /\ n.basis = "national_id"
    /\ \/ x.by = y.by
       \/ m.scope = "regional" /\ n.scope = "regional" /\ Pepper[x.by] = Pepper[y.by]

\* Comparable mosaics of a national ID are equal exactly when the persons are
\* the same, however the identifier was typed.
MosaicsJoinPeople ==
    \A x, y \in sent :
        Comparable(x, x.signal.identity, y, y.signal.identity) =>
            (x.signal.identity.hash = y.signal.identity.hash <=> x.raw.person = y.raw.person)

\* A destination mosaic is the identity mosaic of the payee, so that money can
\* be followed ("byte-identical to the identity mosaic's own derivation").
RoutesCanBeFollowed ==
    \A x, y \in sent :
        Comparable(x, x.signal.destination, y, y.signal.identity) =>
            (x.signal.destination.hash = y.signal.identity.hash <=> x.raw.payee = y.raw.person)

\* A mosaic of scope "bank" never occurs in what another gateway sends, shared
\* pepper or not.
BankScopeStaysInBank ==
    \A x, y \in sent :
        x.by # y.by =>
            \A m \in {x.signal.identity, x.signal.destination} \ {NoMosaic},
               n \in {y.signal.identity, y.signal.destination} :
                m.scope = "bank" => m.hash # n.hash

\* signal_id is an idempotency key: equal exactly for one gateway's retries of
\* one reference; references that differ in case or punctuation stay apart.
SignalIDsAreKeys ==
    \A x, y \in sent : x # y =>
        (x.signal.signalID = y.signal.signalID <=>
            /\ x.by = y.by
            /\ ~Blank(x.raw.transactionRef)
            /\ Trim(x.raw.transactionRef) = Trim(y.raw.transactionRef))

\* Each cell is two half cells wide; the last one holds the edge of the map.
Cell(x, bits) == IF x \div 2 < TwoTo[bits] THEN x \div 2 ELSE TwoTo[bits] - 1

\* The zone says in which cell a place lies, no more and no less, also on the
\* edges of the map.
ZoneIsCell ==
    LET Same(p, q) == /\ Cell(p.lon, LonBits) = Cell(q.lon, LonBits)
                      /\ Cell(p.lat, LatBits) = Cell(q.lat, LatBits)
    IN  \A x, y \in {z \in sent : z.raw.place.kind = "point"} :
            x.signal.zone = y.signal.zone <=> Same(x.raw.place, y.raw.place)

\* The timestamp is the start of the quarter of an hour, in UTC, that holds the
\* instant, whatever offset it was written with.
BucketHoldsInstant ==
    \A x \in sent :
        LET instant == x.raw.time.minutes - x.raw.time.offset
        IN  /\ x.signal.timestamp % 15 = 0
            /\ x.signal.timestamp <= instant /\ instant < x.signal.timestamp + 15

\* Within a gateway, fallback mosaics are equal exactly for the requests about
\* one customer, however identifier and name were typed ("delimited field
\* concatenation to prevent boundary collisions"), provided that neither
\* contains the delimiter.
FallbackUnambiguous ==
    LET Fallback == {z \in sent :
            /\ z.signal.identity.basis = "internal_id_fallback"
            /\ Undelimited(z.raw.id) /\ Undelimited(z.raw.name)}
    IN  \A x, y \in Fallback :
            x.by = y.by =>
                (x.signal.identity.hash = y.signal.identity.hash <=> x.raw.person = y.raw.person)

=============================================================================

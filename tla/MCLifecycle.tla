---------------------------- MODULE MCLifecycle ----------------------------
(***************************************************************************)
(* An instance of Lifecycle for TLC: two requests, and environments and    *)
(* files that set each thing, leave it out, or spoil it.                   *)
(***************************************************************************)
EXTENDS Lifecycle

CONSTANTS r1, r2

TwoRequests == {r1, r2}

Spelled(words) == [word : words, plain : BOOLEAN]

Identity == {"INSTITUTION_ID", "BANK_SALT"}
Vendor   == {"API_KEY", "HUB_API_URL"}

SomeEnvironments ==
    [mode : Spelled({"", "standalone"}), keying : Spelled({"regional"}) \cup {NoWord},
     threshold : {Unset, Malformed, 0, 500}, retention : {Unset},
     given : {own \cup pepper \cup places :
                 own \in {Identity, Vendor \cup {"HMAC_SECRET"},
                          Identity \cup Vendor \cup {"HMAC_SECRET"}},
                 pepper \in SUBSET {"MOSAIC_PEPPER", "REGIONAL_PEPPER"},
                 places \in {{}, {"EGRESS_AUDIT_DIR"}, {"SPOOL_DIR", "EGRESS_AUDIT_DIR"},
                             {"TLS_CERT_FILE", "TLS_KEY_FILE"}, {"TLS_CERT_FILE"}}}]

SomeFiles ==
    {Unset, Malformed} \cup
    [mode : {NoWord, Word("standalone"), Word("hub")}, keying : {NoWord, Word("regional")},
     threshold : {Unset, -1}, retention : {30}, given : {{}, Identity, Vendor}]

=============================================================================

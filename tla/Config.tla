------------------------------- MODULE Config -------------------------------
(***************************************************************************)
(* How a gateway process gets its settings: config.Load merges the file    *)
(* and the environment, main's validateStartup accepts or refuses the      *)
(* result, and later code reads more of the environment on its own.  Pure  *)
(* operators; Lifecycle is the process that uses them.                     *)
(*                                                                         *)
(* A text that only has to be there is a name in "given".  A text that is  *)
(* compared is a word with plain = FALSE when it is padded with blanks or  *)
(* written in capitals: blanks alone are [word |-> "", plain |-> FALSE].   *)
(* A number is an integer, Malformed, or Unset.  Left out: NaN, which      *)
(* strconv.ParseFloat also reads, and INTERNAL_ADAPTER_CONFIG, which no    *)
(* code uses.                                                              *)
(***************************************************************************)
EXTENDS Integers

CONSTANTS
    Environments,  \* [mode, keying, threshold, retention, given]
    Files,         \* the same, or Unset (not there) or Malformed (not JSON)
    Unset, Malformed

\* encoding/json rejects a file with a number that is none, as a whole.
ASSUME NumbersAssumption ==
    /\ Unset \notin Int /\ Malformed \notin Int
    /\ \A env \in Environments : {env.threshold, env.retention} \subseteq Int \cup {Unset, Malformed}
    /\ \A file \in Files \ {Unset, Malformed} :
           {file.threshold, file.retention} \subseteq Int \cup {Unset}

Word(w)  == [word |-> w, plain |-> TRUE]
NoWord   == Word("")
Blanks   == [word |-> "", plain |-> FALSE]

NoFile == [mode |-> NoWord, keying |-> NoWord, threshold |-> Unset, retention |-> Unset,
           given |-> {}]

\* A file that cannot be read or parsed is ignored as a whole.
FileDefaults(file) == IF file \in {Unset, Malformed} THEN NoFile ELSE file

\* strings.TrimSpace and ToLower, and only then the default.
Normalized(text, default) == IF text.word = "" THEN Word(default) ELSE Word(text.word)

\* envInt and envFloat: what does not parse counts as not set.
Number(inEnv, inFile, default) ==
    LET n == IF inEnv \in {Unset, Malformed} THEN inFile ELSE inEnv
    IN  IF n = Unset THEN default ELSE IF n <= 0 THEN default ELSE n

\* A blank environment variable is set: it hides what the file says.
Load(env, file) ==
    LET f == FileDefaults(file)
        Text(inEnv, inFile) == IF inEnv = NoWord THEN inFile ELSE inEnv
    IN  [mode      |-> Normalized(Text(env.mode, f.mode), "middleware"),
         keying    |-> Normalized(Text(env.keying, f.keying), "bank"),
         threshold |-> Number(env.threshold, f.threshold, 10000),
         retention |-> Number(env.retention, f.retention, 90),
         given     |-> (env.given \cap {"INSTITUTION_ID", "API_KEY", "HUB_API_URL", "BANK_SALT"})
                           \cup f.given]

IsStandalone(cfg) == cfg.mode = Word("standalone")

pepperEnv(env) ==
    IF "MOSAIC_PEPPER" \in env.given THEN "MOSAIC_PEPPER"
    ELSE IF "REGIONAL_PEPPER" \in env.given THEN "REGIONAL_PEPPER"
    ELSE Unset

\* Variant: the alias is forgotten where the pepper is used.
PreferredPepper(env) == IF "MOSAIC_PEPPER" \in env.given THEN "MOSAIC_PEPPER" ELSE Unset

resolvePepper(env) == pepperEnv(env)

\* validateStartup finds no problem.
validateStartup(cfg, env) ==
    /\ {"INSTITUTION_ID", "BANK_SALT"} \subseteq cfg.given
    /\ \/ cfg.mode = Word("standalone")
       \/ /\ cfg.mode = Word("middleware")
          /\ {"API_KEY", "HUB_API_URL"} \subseteq cfg.given
          /\ "HMAC_SECRET" \in env.given
    /\ \/ cfg.keying = Word("bank")
       \/ cfg.keying = Word("regional") /\ pepperEnv(env) # Unset

\* ForwardPayload has what it needs; without it every signal is rejected for
\* good, and the spool's forwarder dead-letters the whole queue.
CanForward(cfg, env) ==
    /\ "HUB_API_URL" \in cfg.given /\ "HMAC_SECRET" \in env.given
    /\ "API_KEY" \in cfg.given \cup env.given

\* What main listens with, and what the container's health probe speaks.
ServerTLS(env)  == {"TLS_CERT_FILE", "TLS_KEY_FILE"} \subseteq env.given
healthcheck(env) == {"TLS_CERT_FILE", "TLS_KEY_FILE"} \subseteq env.given

=============================================================================

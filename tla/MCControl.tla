----------------------------- MODULE MCControl ------------------------------
(***************************************************************************)
(* The control side of an entity, each part on its own in a behaviour: its *)
(* AEM command handler with its controllers, the matrices it stores, the   *)
(* distribution of keys by a controller, the keychains of public keys, and *)
(* the payloads sealed with the keys.                                      *)
(***************************************************************************)
EXTENDS AemEntity, KeyExchange, TLC

CONSTANTS v1, v2

\* The second descriptor is missing from the second configuration, whose
\* first descriptor has another authored value.
MCAuthored ==
    [g \in {0, 1} |-> [i \in {1, 2} |->
        IF i = 1 THEN [current |-> IF g = 0 THEN v1 ELSE v2, listed |-> {v1, v2}]
        ELSE IF g = 0 THEN [current |-> v1, listed |-> {v2}]
        ELSE Absent]]
MCChoices == {v1, v2}

\* Nothing tells one controller from the other.
EitherController == Permutations(Controllers)

SessionKey(id, type, key) == [key_id |-> id, type |-> type, key |-> key]

\* The listener has the talker's keys in the same or in the other order, only
\* the second, the first as another type, or none.
Listeners(type) ==
    {<<>>, <<SessionKey(1, type, 1), SessionKey(1, type, 2)>>,
     <<SessionKey(1, type, 2), SessionKey(1, type, 1)>>, <<SessionKey(2, type, 1)>>}
        \cup {<<SessionKey(1, t, 1)>> : t \in SessionKeyTypes}

VARIABLE part

rest == <<matrix, aemVars>>

NoMatrix == [status |-> "none"]

\* A part that is not at work in a behaviour rests in one initial state.
ControlInit ==
    /\ part \in {"aem", "matrix", "keys", "trust", "aef"}
    /\ AemInit
    /\ wired => kind = "selector"
    /\ part # "aem" => kind = "selector" /\ ~wired
    /\ IF part = "matrix" THEN MatrixInit ELSE matrix = NoMatrix
    /\ KeInit /\ (part # "keys" => keSuite = "ed25519")
    /\ IF part = "aef"
       THEN \E type \in SessionKeyTypes : \E heard \in Listeners(type) :
                AefInit(<<SessionKey(1, type, 1), SessionKey(1, type, 2)>>, heard)
       ELSE AefInit(<<>>, <<>>)

KeNext ==
    \/ SendOffer \/ AskNonce
    \/ \E f \in keNet : f.kind = "ake" /\ (ReceiveOffer(f) \/ ReceiveAccept(f))
    \/ \E f \in keNet : f.kind = "aem" /\ (\/ AnswerNonce(f) \/ TakeNonce(f)
                                          \/ TakeKey(f) \/ KeyConfirmed(f))
    \/ keGiven = {} /\ GiveKey("aes128", 1)
    \/ keGiven # {} /\ GiveKey("aes256_siv", 2)

SameSize(type) == IF type = "p256" THEN {"p256"} ELSE EntryTypes \ {"p256"}

TrustNext ==
    \E c \in PublicChains, type \in EntryTypes, id \in 1..2, signer \in {"root", "site"} :
        \E as \in SameSize(type) : FilePublicKey(c, type, as, id, 1, signer)

AefNext ==
    \/ \E enc \in 0..2, id \in 1..2, n \in {0, 5}, room \in {20, 28, 33}, nonce \in BOOLEAN :
           aef_encrypt(enc, id, n, room, 1, nonce)
    \/ \E i \in DOMAIN aefSent : \E enc \in 0..2, cut \in {0, 1, 20}, damaged \in BOOLEAN,
          room \in {0, 4, 5}, aad \in 1..2 : Listen(i, enc, cut, damaged, room, aad)

ControlNext ==
    \/ part = "aem" /\ AemNext /\ UNCHANGED <<part, matrix, keVars, aefVars>>
    \/ part = "matrix" /\ MatrixWrite /\ UNCHANGED <<part, aemVars, keVars, aefVars>>
    \/ part = "keys" /\ KeNext /\ UNCHANGED <<part, rest, aefVars>>
    \/ part = "trust" /\ TrustNext /\ UNCHANGED <<part, rest, aefVars>>
    \/ part = "aef" /\ AefNext /\ UNCHANGED <<part, rest, keVars>>

ControlSpec == ControlInit /\ [][ControlNext]_<<part, rest, keVars, aefVars>>
=============================================================================

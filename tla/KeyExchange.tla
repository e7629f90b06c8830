---------------------------- MODULE KeyExchange -----------------------------
(***************************************************************************)
(* Key management (src/statusbar/avtp_crypto): signed public keys and the  *)
(* chains they are kept in, the signed key exchange from which controller  *)
(* and entity derive a transport key, and the nonce-bound distribution of  *)
(* stream keys.  The library offers the operations; the order in which the *)
(* two parties use them is the application's, taken from the library's own *)
(* tests.  Signatures, Diffie-Hellman, HKDF, AES-SIV and ECIES belong to   *)
(* the crypto library, which is not in this repository: a signature or a   *)
(* tag is the record of what it was made over, and opens for nothing else. *)
(*                                                                         *)
(* The network keeps every frame for ever: a frame may be lost, overtaken, *)
(* or arrive again after its sender has started over.                      *)
(***************************************************************************)
EXTENDS Integers, Sequences, FiniteSets

CONSTANTS KeMaxDraws,     \* fresh values each party draws of each kind
          KeMaxEntries    \* public keys that are filed

VARIABLES
  keSuite,    \* which pair of algorithms the two parties use
  keCtl,      \* the controller: its ephemeral key, transport key and nonces
  keEnt,      \* the entity: the same, and its keychain
  keNet,      \* every frame sent so far
  keGiven,    \* every key the controller has wrapped, with id and type
  keOpened,   \* what the entity made of the last key it was sent
  keChains    \* the public keychains

keVars == <<keSuite, keCtl, keEnt, keNet, keGiven, keOpened, keChains>>

none == <<>>
no_nonce == 0

Sign(key, data) == [by |-> key, over |-> data]
Verify(key, data, signature) == signature = Sign(key, data)
SharedSecret(mine, theirs) == {mine, theirs}
SivEncrypt(key, text, aad) ==
  [ciphertext |-> text, siv_tag |-> [key |-> key, text |-> text, aad |-> aad]]
SivDecrypt(key, wrapped, aad) ==
  wrapped.siv_tag = [key |-> key, text |-> wrapped.ciphertext, aad |-> aad]

----------------------------------------------------------------------------
(***************************************************************************)
(* Signed public keys.  The signed message starts with a tag that names    *)
(* the type of the entry; the tag itself is not sent.                      *)
(***************************************************************************)
signed_public_key_entry_domain ==
  [ed25519 |-> 1, x25519 |-> 2, p256 |-> 3, p256_x25519 |-> 4]

EntryTypes == DOMAIN signed_public_key_entry_domain

SignedData(type, e) ==
  <<signed_public_key_entry_domain[type], e.key_id, e.related_key_id,
    e.public_key>>

SignedEntry(type, e, signing_key) ==
  [e EXCEPT !.signature = Sign(signing_key, SignedData(type, e))]

build_ed25519_signed_public_key_entry(e, k) == SignedEntry("ed25519", e, k)
build_x25519_signed_public_key_entry(e, k) == SignedEntry("x25519", e, k)
build_p256_signed_public_key_entry(e, k) == SignedEntry("p256", e, k)
build_p256_signed_x25519_public_key_entry(e, k) ==
  SignedEntry("p256_x25519", e, k)

BuildEntry(type, e, k) ==
  CASE type = "ed25519" -> build_ed25519_signed_public_key_entry(e, k)
    [] type = "x25519"  -> build_x25519_signed_public_key_entry(e, k)
    [] type = "p256"    -> build_p256_signed_public_key_entry(e, k)
    [] OTHER            -> build_p256_signed_x25519_public_key_entry(e, k)

EntryVerifies(type, e, key) == Verify(key, SignedData(type, e), e.signature)

verify_ed25519_signed_public_key_entry(e, key) ==
  EntryVerifies("ed25519", e, key)
verify_x25519_signed_public_key_entry(e, key) == EntryVerifies("x25519", e, key)
verify_p256_signed_public_key_entry(e, key) == EntryVerifies("p256", e, key)
verify_p256_signed_x25519_public_key_entry(e, key) ==
  EntryVerifies("p256_x25519", e, key)

\* An entry is verified by the function of the type it was read as.
VerifyEntry(e, key) ==
  CASE e.type = "ed25519" -> verify_ed25519_signed_public_key_entry(e, key)
    [] e.type = "x25519"  -> verify_x25519_signed_public_key_entry(e, key)
    [] e.type = "p256"    -> verify_p256_signed_public_key_entry(e, key)
    [] OTHER              -> verify_p256_signed_x25519_public_key_entry(e, key)

----------------------------------------------------------------------------
\* The first entry of a chain with the identifier.
find_key_entry(chain, id) ==
  LET hits == {i \in DOMAIN chain : chain[i].key_id = id}
  IN  IF hits = {} THEN none
      ELSE chain[CHOOSE i \in hits : \A j \in hits : i <= j]

PublicChains == {"manufacturer_public", "controllers", "entity_public"}

find_public_key_entry(chains, id) ==
  LET made == find_key_entry(chains.manufacturer_public, id)
      allowed == find_key_entry(chains.controllers, id)
  IN  IF made # none THEN made
      ELSE IF allowed # none THEN allowed
      ELSE find_key_entry(chains.entity_public, id)

\* An authority signs a key and the entry is filed; what was signed is kept
\* beside it.  Three of the four types are 120 octets on the wire, and a
\* reader may take any of them for another.
FilePublicKey(chain, type, as, id, key, signer) ==
  LET e == [key_id |-> id, related_key_id |-> id, public_key |-> key,
            signature_key_id |-> signer, signature |-> none, type |-> as,
            signed |-> <<type, id, key, signer>>]
  IN  /\ Len(keChains[chain]) < KeMaxEntries
      /\ keChains' =
           [keChains EXCEPT ![chain] = Append(@, BuildEntry(type, e, signer))]
      /\ UNCHANGED <<keSuite, keCtl, keEnt, keNet, keGiven, keOpened>>

----------------------------------------------------------------------------
(***************************************************************************)
(* The key exchange.  Offer and accept have the same form.                 *)
(***************************************************************************)
key_exchange_offer == 1
key_exchange_accept == 2

KeyExchangePdu(suite, type, identity, ephemeral) ==
  [suite |-> suite, message_type |-> type, sender_identity |-> identity,
   ephemeral_pubkey |-> ephemeral,
   signature |-> Sign(identity, <<type, identity, ephemeral>>)]

build_ed25519_key_exchange(type, identity, ephemeral) ==
  KeyExchangePdu("ed25519", type, identity, ephemeral)
build_p256_key_exchange(type, identity, ephemeral) ==
  KeyExchangePdu("p256", type, identity, ephemeral)

build_key_exchange(type, identity, ephemeral) ==
  IF keSuite = "ed25519" THEN build_ed25519_key_exchange(type, identity, ephemeral)
  ELSE build_p256_key_exchange(type, identity, ephemeral)

\* The peer's ephemeral key, if the PDU is its sender's own.
PeerKey(pdu, expected_identity) ==
  IF /\ pdu.sender_identity = expected_identity
     /\ Verify(pdu.sender_identity,
               <<pdu.message_type, pdu.sender_identity, pdu.ephemeral_pubkey>>,
               pdu.signature)
  THEN pdu.ephemeral_pubkey ELSE none

verify_ed25519_key_exchange(pdu, expected) == PeerKey(pdu, expected)
verify_p256_key_exchange(pdu, expected) == PeerKey(pdu, expected)

verify_key_exchange(pdu, expected) ==
  IF keSuite = "ed25519" THEN verify_ed25519_key_exchange(pdu, expected)
  ELSE verify_p256_key_exchange(pdu, expected)

build_ed25519_transport_key_info(initiator, responder) ==
  <<"avtp-transport", initiator, responder>>
build_p256_transport_key_info(initiator, responder) ==
  <<"avtp-transport-p256", initiator, responder>>

derive_ed25519_transport_key(secret, initiator, responder) ==
  [salt |-> "avtp-crypto-v1", secret |-> secret,
   info |-> build_ed25519_transport_key_info(initiator, responder)]
derive_p256_transport_key(secret, initiator, responder) ==
  [salt |-> "avtp-crypto-p256-v1", secret |-> secret,
   info |-> build_p256_transport_key_info(initiator, responder)]

derive_transport_key(secret, initiator, responder) ==
  IF keSuite = "ed25519"
  THEN derive_ed25519_transport_key(secret, initiator, responder)
  ELSE derive_p256_transport_key(secret, initiator, responder)

----------------------------------------------------------------------------
(***************************************************************************)
(* Frames.  A payload is a sequence of pieces <<octets, value>>; Ethernet  *)
(* pads a short frame to its least size.                                   *)
(***************************************************************************)
aem_payload_offset == 38
aem_data_length == 12
least_frame == 60

Octets(payload) ==
  LET upTo[i \in 0..Len(payload)] ==
        IF i = 0 THEN 0 ELSE upTo[i - 1] + payload[i][1]
  IN  upTo[Len(payload)]

build_aem_frame(message_type, command, payload, made) ==
  [kind |-> "aem", message_type |-> message_type, command |-> command,
   cdl |-> aem_data_length + Octets(payload),
   octets |-> aem_payload_offset + Octets(payload), payload |-> payload,
   made |-> made]

Padded(f) ==
  IF f.octets >= least_frame THEN f
  ELSE [f EXCEPT !.octets = least_frame,
                 !.payload = Append(@, <<least_frame - f.octets, "padding">>)]

\* The declared length bounds the payload, not the frame.
parse_aem_frame(f) ==
  LET declared == f.cdl - aem_data_length
      whole == {k \in 0..Len(f.payload) :
                  Octets(SubSeq(f.payload, 1, k)) = declared}
  IN  IF declared < 0 \/ aem_payload_offset + declared > f.octets THEN none
      ELSE SubSeq(f.payload, 1, CHOOSE k \in whole : TRUE)

build_auth_get_nonce_frame(cn) ==
  build_aem_frame("command", "AUTH_GET_NONCE", <<<<8, cn>>>>, none)
build_auth_get_nonce_response_frame(cn, tn) ==
  build_aem_frame("response", "AUTH_GET_NONCE", <<<<8, cn>>, <<8, tn>>>>, none)
build_auth_add_key_nonce_frame(box, made) ==
  build_aem_frame("command", "AUTH_ADD_KEY_NONCE", <<box>>, made)
build_auth_add_key_nonce_response_frame(cn, tn, id) ==
  build_aem_frame("response", "AUTH_ADD_KEY_NONCE",
                  <<<<8, cn>>, <<8, tn>>, <<8, id>>>>, none)

\* The values of a payload that is long enough.
Extract(payload, n) ==
  IF payload = none \/ Octets(payload) < 8 * n THEN none
  ELSE [i \in 1..n |-> payload[i][2]]

extract_auth_get_nonce(f) == Extract(parse_aem_frame(f), 1)
extract_auth_get_nonce_response(f) == Extract(parse_aem_frame(f), 2)
extract_auth_add_key_nonce_ciphertext(f) == parse_aem_frame(f)
extract_auth_add_key_nonce_response(f) == Extract(parse_aem_frame(f), 3)

----------------------------------------------------------------------------
(***************************************************************************)
(* Wrapped keys.                                                           *)
(***************************************************************************)
build_wrap_aad_mutNoTargetNonce(cn, tn, id, type) == <<cn, id, type>>

build_wrap_aad(cn, tn, id, type) == <<cn, tn, id, type>>

WrapAs(type, tk, cn, tn, id, key) ==
  SivEncrypt(tk, key, build_wrap_aad(cn, tn, id, type))
wrap_aes128_key(tk, cn, tn, id, key) == WrapAs("aes128", tk, cn, tn, id, key)
wrap_aes256_key(tk, cn, tn, id, key) == WrapAs("aes256", tk, cn, tn, id, key)
wrap_aes128_siv_key(tk, cn, tn, id, key) ==
  WrapAs("aes128_siv", tk, cn, tn, id, key)
wrap_aes256_siv_key(tk, cn, tn, id, key) ==
  WrapAs("aes256_siv", tk, cn, tn, id, key)

UnwrapAs(type, tk, cn, tn, id, wrapped) ==
  IF SivDecrypt(tk, wrapped, build_wrap_aad(cn, tn, id, type))
  THEN wrapped.ciphertext ELSE none
unwrap_aes128_key(tk, cn, tn, id, w) == UnwrapAs("aes128", tk, cn, tn, id, w)
unwrap_aes256_key(tk, cn, tn, id, w) == UnwrapAs("aes256", tk, cn, tn, id, w)
unwrap_aes128_siv_key(tk, cn, tn, id, w) ==
  UnwrapAs("aes128_siv", tk, cn, tn, id, w)
unwrap_aes256_siv_key(tk, cn, tn, id, w) ==
  UnwrapAs("aes256_siv", tk, cn, tn, id, w)

SessionKeyTypes == {"aes128", "aes256", "aes128_siv", "aes256_siv"}

key_type_data_size(type) ==
  CASE type = "aes128" -> 16
    [] type \in {"aes256", "aes128_siv"} -> 32
    [] type = "aes256_siv" -> 64

WrapKey(type, tk, cn, tn, id, key) ==
  CASE type = "aes128"     -> wrap_aes128_key(tk, cn, tn, id, key)
    [] type = "aes256"     -> wrap_aes256_key(tk, cn, tn, id, key)
    [] type = "aes128_siv" -> wrap_aes128_siv_key(tk, cn, tn, id, key)
    [] type = "aes256_siv" -> wrap_aes256_siv_key(tk, cn, tn, id, key)

UnwrapKey(type, tk, cn, tn, id, w) ==
  CASE type = "aes128"     -> unwrap_aes128_key(tk, cn, tn, id, w)
    [] type = "aes256"     -> unwrap_aes256_key(tk, cn, tn, id, w)
    [] type = "aes128_siv" -> unwrap_aes128_siv_key(tk, cn, tn, id, w)
    [] type = "aes256_siv" -> unwrap_aes256_siv_key(tk, cn, tn, id, w)

\* Header and wrapped key in a box only the entity opens.
KeyBox(header, wrapped) ==
  <<28 + key_type_data_size(header.type) + 16, [header |-> header, key |-> wrapped]>>

----------------------------------------------------------------------------
KeInit ==
  /\ keSuite \in {"ed25519", "p256"}
  /\ keCtl = [eph |-> 0, tk |-> none, cn |-> 0, tn |-> no_nonce, confirmed |-> {}]
  /\ keEnt = [eph |-> 0, tk |-> none, tn |-> 0, cn |-> no_nonce, chain |-> <<>>]
  /\ keNet = {}
  /\ keGiven = {}
  /\ keOpened = none
  /\ keChains = [c \in PublicChains |-> <<>>]

Transmit(f) == keNet' = keNet \cup {f}
KeepsKeys == keOpened' = none /\ UNCHANGED <<keSuite, keGiven, keChains>>

SendOffer ==
  /\ keCtl.eph < KeMaxDraws
  /\ keCtl' = [keCtl EXCEPT !.eph = @ + 1, !.tk = none]
  /\ Transmit([kind |-> "ake", pdu |->
       build_key_exchange(key_exchange_offer, "ctl", <<"ctl", keCtl.eph + 1>>)])
  /\ UNCHANGED keEnt /\ KeepsKeys

ReceiveOffer(f) ==
  LET theirs == verify_key_exchange(f.pdu, "ctl")
      mine == <<"ent", keEnt.eph + 1>>
  IN  /\ f.pdu.message_type = key_exchange_offer /\ theirs # none
      /\ keEnt.eph < KeMaxDraws
      /\ keEnt' = [keEnt EXCEPT !.eph = @ + 1,
             !.tk = derive_transport_key(SharedSecret(mine, theirs), "ctl", "ent")]
      /\ Transmit([kind |-> "ake", pdu |->
           build_key_exchange(key_exchange_accept, "ent", mine)])
      /\ UNCHANGED keCtl /\ KeepsKeys

ReceiveAccept(f) ==
  LET theirs == verify_key_exchange(f.pdu, "ent")
      mine == <<"ctl", keCtl.eph>>
  IN  /\ f.pdu.message_type = key_exchange_accept /\ theirs # none
      /\ keCtl.eph > 0
      /\ keCtl' = [keCtl EXCEPT
             !.tk = derive_transport_key(SharedSecret(mine, theirs), "ctl", "ent")]
      /\ UNCHANGED <<keEnt, keNet>> /\ KeepsKeys

AskNonce ==
  /\ keCtl.cn < KeMaxDraws
  /\ keCtl' = [keCtl EXCEPT !.cn = @ + 1, !.tn = no_nonce]
  /\ Transmit(build_auth_get_nonce_frame(keCtl.cn + 1))
  /\ UNCHANGED keEnt /\ KeepsKeys

AnswerNonce(f) ==
  LET cn == extract_auth_get_nonce(Padded(f))
  IN  /\ f.command = "AUTH_GET_NONCE" /\ f.message_type = "command"
      /\ cn # none /\ keEnt.tn < KeMaxDraws
      /\ keEnt' = [keEnt EXCEPT !.tn = @ + 1, !.cn = cn[1]]
      /\ Transmit(build_auth_get_nonce_response_frame(cn[1], keEnt.tn + 1))
      /\ UNCHANGED keCtl /\ KeepsKeys

TakeNonce(f) ==
  LET both == extract_auth_get_nonce_response(Padded(f))
  IN  /\ f.command = "AUTH_GET_NONCE" /\ f.message_type = "response"
      /\ both # none /\ both[1] = keCtl.cn
      /\ keCtl' = [keCtl EXCEPT !.tn = both[2]]
      /\ UNCHANGED <<keEnt, keNet>> /\ KeepsKeys

GiveKey(type, id) ==
  LET key == <<"key", Cardinality(keGiven) + 1>>
      c == keCtl
      header == [cn |-> c.cn, tn |-> c.tn, id |-> id, type |-> type]
      box == KeyBox(header, WrapKey(type, c.tk, c.cn, c.tn, id, key))
  IN  /\ c.tk # none /\ c.tn # no_nonce /\ Cardinality(keGiven) < KeMaxDraws
      /\ keGiven' = keGiven \cup {[key_id |-> id, type |-> type, key |-> key]}
      /\ Transmit(build_auth_add_key_nonce_frame(box, <<c.tk, c.cn, c.tn>>))
      /\ keOpened' = none
      /\ UNCHANGED <<keSuite, keCtl, keEnt, keChains>>

TakeKey(f) ==
  LET payload == extract_auth_add_key_nonce_ciphertext(Padded(f))
      h == payload[1][2].header
      key == UnwrapKey(h.type, keEnt.tk, keEnt.cn, keEnt.tn, h.id,
                       payload[1][2].key)
      due == f.made = <<keEnt.tk, keEnt.cn, keEnt.tn>>
  IN  /\ f.command = "AUTH_ADD_KEY_NONCE" /\ f.message_type = "command"
      /\ payload # none /\ Len(payload) = 1
      /\ keOpened' = [ok |-> key # none, due |-> due]
      /\ IF key = none THEN UNCHANGED <<keEnt, keNet>>
         ELSE /\ keEnt' = [keEnt EXCEPT !.chain = Append(@,
                   [key_id |-> h.id, type |-> h.type, key |-> key])]
              /\ Len(keEnt.chain) < KeMaxDraws
              /\ Transmit(build_auth_add_key_nonce_response_frame(
                            keEnt.cn, keEnt.tn, h.id))
      /\ UNCHANGED <<keSuite, keCtl, keGiven, keChains>>

KeyConfirmed(f) ==
  LET r == extract_auth_add_key_nonce_response(Padded(f))
  IN  /\ f.command = "AUTH_ADD_KEY_NONCE" /\ f.message_type = "response"
      /\ r # none /\ r[1] = keCtl.cn /\ r[2] = keCtl.tn
      /\ keCtl' = [keCtl EXCEPT !.confirmed = @ \cup {r[3]}]
      /\ UNCHANGED <<keEnt, keNet>> /\ KeepsKeys

----------------------------------------------------------------------------
\* However frames are lost, overtaken or repeated, and whoever starts over
\* in the middle: a key in the entity's chain is one the controller wrapped,
\* under the identifier and type it gave it; the entity takes a key exactly
\* when it was wrapped for the transport key and the two nonces the entity
\* holds at that moment, so never one from an earlier round; an identifier
\* confirmed to the controller is in the entity's chain; and the two transport
\* keys are equal exactly when they came out of the same pair of ephemeral
\* keys.
KeysAgree ==
  /\ \A i \in DOMAIN keEnt.chain : keEnt.chain[i] \in keGiven
  /\ keOpened # none => (keOpened.ok <=> keOpened.due)
  /\ \A id \in keCtl.confirmed : find_key_entry(keEnt.chain, id) # none
  /\ (keCtl.tk # none /\ keEnt.tk # none) =>
       (keCtl.tk = keEnt.tk <=> keCtl.tk.secret = keEnt.tk.secret)

\* A filed public key verifies, as the type it was read as, under exactly the
\* authority that signed it as that type, with the identifier and the key it
\* signed; and no entry filed by a controller or by the entity itself hides
\* a manufacturer's entry with the same identifier.
TrustAgrees ==
  /\ \A c \in PublicChains : \A i \in DOMAIN keChains[c] :
       LET e == keChains[c][i] IN
       \A key \in {e.signature_key_id, e.signed[4], "other"} :
         VerifyEntry(e, key) <=>
           e.signed = <<e.type, e.key_id, e.public_key, key>>
  /\ \A i \in DOMAIN keChains.manufacturer_public :
       LET id == keChains.manufacturer_public[i].key_id
       IN  \E j \in 1..i : find_public_key_entry(keChains, id)
                             = keChains.manufacturer_public[j]

-----------------------------------------------------------------------------
(***************************************************************************)
(* Encrypted AVTP payloads (aef_encrypt and aef_decrypt of                 *)
(* src/statusbar/avtp_crypto/avtp_crypto_pdu.cpp) between a talker and a   *)
(* listener, each with a chain of session keys.  The ciphers are the       *)
(* crypto library's: a sealed text opens under the key, nonce and          *)
(* associated data it was sealed with, and under nothing else.             *)
(***************************************************************************)
CONSTANTS AefOctetValues,   \* values of one octet of the nonce counter
          AefNonceOctets,   \* octets of the nonce counter
          AefMaxPackets     \* payloads sent in a behaviour

VARIABLES
  aefTalker,    \* the talker's session keychain
  aefListener,  \* the listener's
  aefCounter,   \* the talker's nonce counter, most significant octet first
  aefSent,      \* the payloads sent, in order
  aefHeard      \* what the listener made of the last one it opened

aefVars == <<aefTalker, aefListener, aefCounter, aefSent, aefHeard>>

aef_enc_aes_siv == 0
aef_enc_aes_gcm_siv == 1
aef_siv_overhead == 16
aef_gcm_siv_overhead == 28

aef_encrypted_size(enc, n) ==
  CASE enc = aef_enc_aes_siv     -> aef_siv_overhead + n
    [] enc = aef_enc_aes_gcm_siv -> aef_gcm_siv_overhead + n
    [] OTHER                     -> 0

aef_plaintext_size(enc, n) ==
  CASE enc = aef_enc_aes_siv /\ n >= aef_siv_overhead -> n - aef_siv_overhead
    [] enc = aef_enc_aes_gcm_siv /\ n >= aef_gcm_siv_overhead ->
         n - aef_gcm_siv_overhead
    [] OTHER -> 0

\* The key types each mode takes.
KeyFits(enc, type) ==
  \/ enc = aef_enc_aes_siv /\ type \in {"aes128_siv", "aes256_siv"}
  \/ enc = aef_enc_aes_gcm_siv /\ type \in {"aes128", "aes256"}

\* Big-endian, the carry running to the left until an octet does not wrap.
Increment(c) ==
  LET carried(i) == \A j \in (i + 1)..AefNonceOctets :
                      c[j] = AefOctetValues - 1
  IN  [i \in 1..AefNonceOctets |->
         IF carried(i) THEN (c[i] + 1) % AefOctetValues ELSE c[i]]

\* aef_encrypt of n octets of text into room octets; nonce says whether a
\* counter was passed.  A refusal leaves the counter alone.
aef_encrypt(enc, id, n, room, aad, nonce) ==
  LET entry == find_key_entry(aefTalker, id)
      used == IF enc = aef_enc_aes_gcm_siv THEN aefCounter ELSE none
  IN  /\ Len(aefSent) < AefMaxPackets
      /\ IF /\ entry # none
            /\ enc \in {aef_enc_aes_siv, aef_enc_aes_gcm_siv}
            /\ enc = aef_enc_aes_gcm_siv => nonce
            /\ room >= aef_encrypted_size(enc, n)
            /\ KeyFits(enc, entry.type)
         THEN /\ aefSent' = Append(aefSent,
                   [enc |-> enc, key_id |-> id,
                    octets |-> aef_encrypted_size(enc, n), size |-> n,
                    key |-> <<entry.type, entry.key>>, nonce |-> used,
                    aad |-> aad])
              /\ aefCounter' = IF enc = aef_enc_aes_gcm_siv
                               THEN Increment(aefCounter) ELSE aefCounter
         ELSE UNCHANGED <<aefSent, aefCounter>>
      /\ aefHeard' = none
      /\ UNCHANGED <<aefTalker, aefListener>>

\* The cipher's answer, asked only of a key that fits the mode.
Opens(entry, p, aad) ==
  /\ KeyFits(p.enc, entry.type)
  /\ p.key = <<entry.type, entry.key>> /\ p.aad = aad /\ p.intact

\* What aef_decrypt puts into room octets: the plaintext's size, or -1.
aef_decrypt(p, room, aad) ==
  LET entry == find_key_entry(aefListener, p.key_id)
      overhead == IF p.enc = aef_enc_aes_siv THEN aef_siv_overhead
                  ELSE aef_gcm_siv_overhead
  IN  IF /\ entry # none
         /\ p.enc \in {aef_enc_aes_siv, aef_enc_aes_gcm_siv}
         /\ p.octets >= overhead
         /\ room >= p.octets - overhead
         /\ Opens(entry, p, aad)
      THEN p.octets - overhead ELSE -1

\* The listener opens the i-th payload: as sent, with an octet damaged or
\* with octets cut off its end, or under another mode than it was sent in.
Listen(i, enc, cut, damaged, room, aad) ==
  LET sent == aefSent[i]
      p == [enc |-> enc, key_id |-> sent.key_id, octets |-> sent.octets - cut,
            key |-> sent.key, nonce |-> sent.nonce, aad |-> sent.aad,
            intact |-> cut = 0 /\ ~damaged /\ enc = sent.enc]
      n == aef_decrypt(p, room, aad)
      entry == find_key_entry(aefListener, sent.key_id)
  IN  /\ aefHeard' =
           [ok |-> n >= 0, size |-> n, want |-> sent.size,
            due |-> /\ cut = 0 /\ ~damaged /\ enc = sent.enc
                    /\ aad = sent.aad
                    /\ room >= sent.size
                    /\ entry # none /\ sent.key = <<entry.type, entry.key>>]
      /\ UNCHANGED <<aefTalker, aefListener, aefCounter, aefSent>>

AefInit(talker, listener) ==
  /\ aefTalker = talker
  /\ aefListener = listener
  /\ aefCounter = [i \in 1..AefNonceOctets |-> AefOctetValues - 1]
  /\ aefSent = <<>>
  /\ aefHeard = none

----------------------------------------------------------------------------
\* Whatever the two keychains hold: the listener opens a payload exactly when
\* its own first key under the identifier is the one the talker used, the
\* payload, the mode and the associated data are as sent and the text fits
\* its buffer, and then gets as many octets as were sealed, the number
\* aef_plaintext_size foretells; a refused payload yields nothing.  No two payloads of the nonce-based mode carry the same
\* nonce, although the counter's octets wrap one into the other.
AefIntact ==
  /\ aefHeard # none => /\ aefHeard.ok <=> aefHeard.due
                        /\ aefHeard.ok => aefHeard.size = aefHeard.want
  /\ \A i \in DOMAIN aefSent :
       aef_plaintext_size(aefSent[i].enc, aefSent[i].octets) = aefSent[i].size
  /\ \A i, j \in DOMAIN aefSent :
       (i # j /\ aefSent[i].nonce # none /\ aefSent[j].nonce # none) =>
         aefSent[i].nonce # aefSent[j].nonce

\* The keys of key management stay what their owners made them: on the way to
\* the entity, in the chains of public keys, and in the payloads sealed with
\* them.
KeysHeld == KeysAgree /\ TrustAgrees /\ AefIntact
=============================================================================

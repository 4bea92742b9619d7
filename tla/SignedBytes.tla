---------------------------- MODULE SignedBytes ----------------------------
(***************************************************************************)
(* What this repository fixes the signed bytes of: the sender certificate  *)
(* as server_signature covers it (core/envelope.proto), the statements of  *)
(* a server key and of the offline root (conformance/check_server_trust),  *)
(* the certificate of a linked device (check_device_certificate) and the   *)
(* CTT1 and CTHF frames (scripts/gen_history_snapshot_vectors.py).  A      *)
(* signature says nothing beyond its bytes: two statements that share them *)
(* share their signature.                                                  *)
(*                                                                         *)
(* A label (none begins another), a hash, a key, a number and every other  *)
(* field of a fixed length is one cell; text is its length and its letters.*)
(* A hash names what was hashed.                                           *)
(***************************************************************************)
EXTENDS Naturals, Sequences

PURPOSE == [sender_cert |-> 1, kt_head |-> 2, sticker_manifest |-> 3]

lp(b) == <<Len(b)>> \o b

kid(key) == <<"konstruct/v1/kid", key>>

device_id(identity) == <<"sha256/16", identity>>
fingerprint(identity, hybrid) == <<"sha256", identity, hybrid>>

(* SenderCertificate.server_signature: one field after the other, with no   *)
(* label, length or separator, by the server's Ed25519 key.  The identity   *)
(* key has a fixed length.                                                  *)
server_signature(s) ==
    s.user_id \o s.domain \o <<s.identity_key>> \o s.device_id \o <<s.issued_at, s.expires_at>>

(* check_server_trust: body and the signables. *)
SenderCert(s) ==
    <<"konstruct/v1/sender-cert", kid(s.key)>> \o lp(s.user_id) \o lp(s.domain)
    \o lp(s.identity_key) \o lp(s.device_id) \o <<s.issued_at, s.expires_at>>

KtHead(s) == <<"konstruct/v1/kt-head", kid(s.key), s.tree_size, s.root_hash>>

Delegation(s) ==
    <<"konstruct/v1/delegation", 1, PURPOSE[s.purpose], s.not_before, s.not_after, s.key>>

(* check_device_certificate: the signed message and the Flow A proof. *)
DeviceCert(s) ==
    <<"KonstruktDeviceCert-v1", device_id(s.signer), device_id(s.identity),
      s.identity, s.verifying, s.hybrid, s.issued_at>>

LinkProof(s) == <<"KonstruktLinkProof-v1", fingerprint(s.identity, s.hybrid)>>

(* An opening of type 3 carries zeros for its snapshot id. *)
SnapshotOf(typ, snapshot_id) == IF typ = 3 THEN 0 ELSE snapshot_id

opening_prefix(s) == <<"CTT1", 2, s.sender_eph, s.typ, s.payload_len>>

OpeningBody(s) ==
    <<s.sender_identity, s.sender_hybrid, SnapshotOf(s.typ, s.snapshot_id), s.sender_id,
      s.receiver_id, s.kyber_key_id, s.kem_ct>>

(* Mutant: the snapshot travels in the frame and is not signed. *)
opening_transcriptUnbound(s) ==
    <<s.sender_eph, s.sender_identity, s.sender_hybrid, s.sender_id, s.receiver_id,
      s.kyber_key_id, s.kem_ct, s.typ, s.payload_len>>

opening_transcript(s) == <<s.sender_eph>> \o OpeningBody(s) \o <<s.typ, s.payload_len>>

(* The three frames: what travels before the signature and what is signed. *)
build_opening(s) ==
    [frame |-> opening_prefix(s) \o OpeningBody(s), tagged |-> <<"ctt1v2-s">> \o opening_transcript(s)]

build_reply(s) ==
    [frame |-> <<s.receiver_eph, s.receiver_identity, s.receiver_hybrid>>,
     tagged |-> <<"ctt1v2-r", s.receiver_eph, s.sender_eph, s.receiver_identity,
                  s.receiver_hybrid, s.snapshot_id, s.sender_id, s.receiver_id, s.kem_ct>>]

CthfFields(s) ==
    <<s.user_id, s.recipient, s.source, s.snapshot_id, s.sender_eph, s.sender_identity,
      s.sender_hybrid, s.kyber_key_id, s.kem_ct>>

build_cthf(s) ==
    [frame |-> <<"CTHF", 1>> \o CthfFields(s), tagged |-> <<"cthf1">> \o CthfFields(s)]

(* What is signed for a statement. *)
Signed(s) ==
    CASE s.kind = "server_signature" -> server_signature(s)
      [] s.kind = "sender_cert" -> SenderCert(s)
      [] s.kind = "kt_head" -> KtHead(s)
      [] s.kind = "delegation" -> Delegation(s)
      [] s.kind = "device_cert" -> DeviceCert(s)
      [] s.kind = "link_proof" -> LinkProof(s)
      [] s.kind = "opening" -> build_opening(s).tagged
      [] s.kind = "reply" -> build_reply(s).tagged
      [] s.kind = "cthf" -> build_cthf(s).tagged

-----------------------------------------------------------------------------
(* The lengths of the frames add up, from the lengths of their fields.      *)
EPH == 32
IDENTITY == 32
HYBRID == 32 + 1952
ID == 16
KEM_CT == 1568
SIGNATURE == 64 + 3309

ASSUME FrameLengths ==
    /\ (4 + 1 + EPH + 1 + 8) + (IDENTITY + HYBRID + 3 * ID + 4 + KEM_CT) + SIGNATURE = 7055
    /\ EPH + IDENTITY + HYBRID + SIGNATURE = 5421
    /\ (4 + 1) + 4 * ID + EPH + IDENTITY + HYBRID + 4 + KEM_CT + SIGNATURE = 7062

=============================================================================

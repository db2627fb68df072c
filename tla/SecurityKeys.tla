---------------------------- MODULE SecurityKeys ----------------------------
(***************************************************************************)
(* Standard RDP security (security.c, and its use in rdp.c and             *)
(* connection.c) at a client and a server that both run this code: the     *)
(* keys each end derives from the two randoms, and the packets between     *)
(* them with their signatures, use counts and key updates.                 *)
(*                                                                         *)
(* A hash is the term of what it is taken of; a part of a byte string is   *)
(* the term of its place.  KeyUses stands for 4096.                        *)
(***************************************************************************)
EXTENDS Integers, Sequences

CONSTANTS KeyUses, MaxPackets
ASSUME SkAssumption == KeyUses \in Nat \ {0} /\ MaxPackets \in Nat

VARIABLES skMethod,    \* encryption_method: 1 (40 bits), 2 (128 bits) or FIPS
          skChecksum,  \* do_secure_checksum
          skEnd,       \* the keys and counts of the ends
          skWire,      \* packets under way, by the end that receives them
          skSent,      \* packets sent so far, by the end that sends them
          skGot        \* the packets received so far, by the end that received them

skVars == <<skMethod, skChecksum, skEnd, skWire, skSent, skGot>>
FIPS == 16
Ends == {"client", "server"}
Other(e) == IF e = "client" THEN "server" ELSE "client"

\* Terms.  The randoms, parts of terms, hashes.
CRandom == "client random"
SRandom == "server random"
Part(term, from, n) == << "part", term, from, n >>
Sha1(terms) == << "sha1", terms >>
Md5(terms) == << "md5", terms >>
\* security_premaster_hash three times: 48 bytes of the secret and the randoms.
security_A(secret) == << "A", secret, CRandom, SRandom >>
security_X(secret) == << "X", secret, CRandom, SRandom >>
security_md5_16_32_32(blob, from) == Md5(<< Part(blob, from, 16), CRandom, SRandom >>)
\* The first three of the bytes that 40-bit keys use are the salt.
Salt40(key) == << "salt40", key >>
fips_expand_key_bits(key) == << "des3", key >>

security_establish_keys(method, server_mode) ==
    LET fe == Sha1(<< Part(CRandom, 16, 16), Part(SRandom, 16, 16) >>)
        fd == Sha1(<< Part(CRandom, 0, 16), Part(SRandom, 0, 16) >>)
        master == security_A(<< Part(CRandom, 0, 24), Part(SRandom, 0, 24) >>)
        blob == security_X(master)
        Short(key) == IF method = 1 THEN Salt40(key) ELSE key
        enc == Short(security_md5_16_32_32(blob, IF server_mode THEN 16 ELSE 32))
        dec == Short(security_md5_16_32_32(blob, IF server_mode THEN 32 ELSE 16))
    IN  [sign_key |-> Short(Part(blob, 0, 16)),
         encrypt_key |-> enc, encrypt_update_key |-> enc,
         decrypt_key |-> dec, decrypt_update_key |-> dec,
         rc4_key_len |-> CASE method = 1 -> 8 [] method = 2 -> 16 [] method = FIPS -> 0,
         fips_encrypt_key |-> fips_expand_key_bits(fe), fips_decrypt_key |-> fips_expand_key_bits(fd),
         fips_sign_key |-> Sha1(<< fd, fe >>),
         encrypt_use_count |-> 0, decrypt_use_count |-> 0]

security_key_update(key, update_key, key_len) ==
    LET md5 == Md5(<< Part(update_key, 0, key_len), Sha1(<< Part(update_key, 0, key_len), Part(key, 0, key_len) >>) >>)
        rc4 == << "rc4", md5 >>
    IN  IF key_len = 8 THEN Salt40(rc4) ELSE rc4

security_encrypt(k) ==
    IF k.encrypt_use_count >= KeyUses
    THEN [k EXCEPT !.encrypt_key = security_key_update(k.encrypt_key, k.encrypt_update_key, k.rc4_key_len),
                   !.encrypt_use_count = 1]
    ELSE [k EXCEPT !.encrypt_use_count = @ + 1]
(* Mutant: the key is updated one packet later.                            *)
security_decrypt_late(k) ==
    IF k.decrypt_use_count > KeyUses
    THEN [k EXCEPT !.decrypt_key = security_key_update(k.decrypt_key, k.decrypt_update_key, k.rc4_key_len),
                   !.decrypt_use_count = 1]
    ELSE [k EXCEPT !.decrypt_use_count = @ + 1]

security_decrypt(k) ==
    IF k.decrypt_use_count >= KeyUses
    THEN [k EXCEPT !.decrypt_key = security_key_update(k.decrypt_key, k.decrypt_update_key, k.rc4_key_len),
                   !.decrypt_use_count = 1]
    ELSE [k EXCEPT !.decrypt_use_count = @ + 1]
security_fips_encrypt(k) == [k EXCEPT !.encrypt_use_count = @ + 1]
security_mac_signature(k) == Md5(<< Part(k.sign_key, 0, k.rc4_key_len) >>)
\* The decrypting end signs after it has decrypted, and takes one from its count.
security_salted_mac_signature(k, encryption) ==
    Md5(<< Part(k.sign_key, 0, k.rc4_key_len),
           IF encryption THEN k.encrypt_use_count ELSE k.decrypt_use_count - 1 >>)
security_hmac_signature(k) == Sha1(<< k.fips_sign_key, k.encrypt_use_count >>)
security_fips_check_signature(k) == Sha1(<< k.fips_sign_key, k.decrypt_use_count >>)

SkInit ==
    /\ skMethod \in {1, 2, FIPS} /\ skChecksum \in BOOLEAN
    /\ skEnd = [e \in Ends |-> security_establish_keys(skMethod, e = "server")]
    /\ skWire = [e \in Ends |-> << >>]
    /\ skSent = [e \in Ends |-> 0]
    /\ skGot = [e \in Ends |-> << >>]

\* rdp_security_stream_out: sign, then encrypt.  A packet holds the key and the place in
\* the key stream it was encrypted with, its signature, and its number.
rdp_security_stream_out(e) ==
    LET k == skEnd[e]
        fips == skMethod = FIPS
        after == IF fips THEN security_fips_encrypt(k) ELSE security_encrypt(k)
        mac == IF fips THEN security_hmac_signature(k)
               ELSE IF skChecksum THEN security_salted_mac_signature(k, TRUE) ELSE security_mac_signature(k)
        key == IF fips THEN k.fips_encrypt_key ELSE after.encrypt_key
    IN  /\ skSent[e] < MaxPackets
        /\ skSent' = [skSent EXCEPT ![e] = @ + 1]
        /\ skEnd' = [skEnd EXCEPT ![e] = after]
        /\ skWire' = [skWire EXCEPT ![Other(e)] = Append(@,
              [key |-> key, place |-> after.encrypt_use_count, mac |-> mac, number |-> skSent[e] + 1])]
        /\ UNCHANGED <<skMethod, skChecksum, skGot>>

\* rdp_decrypt: decrypt, then compare the signatures, which are of the plain text.  Only
\* FIPS refuses a packet with a wrong one.
rdp_decrypt(e) ==
    LET k == skEnd[e]
        p == Head(skWire[e])
        fips == skMethod = FIPS
        after == IF fips THEN [k EXCEPT !.decrypt_use_count = @ + 1] ELSE security_decrypt(k)
        mac == IF fips THEN security_fips_check_signature(k)
               ELSE IF skChecksum THEN security_salted_mac_signature(after, FALSE) ELSE security_mac_signature(k)
        key == IF fips THEN k.fips_decrypt_key ELSE after.decrypt_key
        plain == p.key = key /\ p.place = after.decrypt_use_count
    IN  /\ skWire[e] # << >>
        /\ skWire' = [skWire EXCEPT ![e] = Tail(@)]
        /\ skEnd' = [skEnd EXCEPT ![e] = after]
        /\ skGot' = [skGot EXCEPT ![e] = Append(@,
              [plain |-> plain, signed |-> plain /\ p.mac = mac])]
        /\ UNCHANGED <<skMethod, skChecksum, skSent>>

SkNext == \E e \in Ends : rdp_security_stream_out(e) \/ rdp_decrypt(e)
SkSpec == SkInit /\ [][SkNext]_skVars

(***************************************************************************)
(* Properties.                                                             *)
(***************************************************************************)
\* The variables have the types of rdpRdp's fields.
SkTypeOK ==
    /\ skMethod \in {1, 2, FIPS} /\ skChecksum \in BOOLEAN
    /\ \A e \in Ends : /\ skEnd[e].encrypt_use_count \in 0 .. (MaxPackets + KeyUses)
                       /\ skEnd[e].decrypt_use_count \in 0 .. (MaxPackets + KeyUses)
                       /\ skSent[e] \in 0 .. MaxPackets
                       /\ Len(skWire[e]) <= MaxPackets

\* With RC4 every packet is decrypted with the key and at the place it was encrypted
\* with, in both directions and across the key updates of security_encrypt and
\* security_decrypt, however many packets are under way.  With FIPS none is: the server
\* takes its keys like a client.
KeysInStep ==
    \A e \in Ends : \A i \in DOMAIN skGot[e] : skGot[e][i].plain <=> skMethod # FIPS

\* The signature of a packet that is read is the one the other end computes, except the
\* salted one of the first packet after a key update: it is taken before the update at one end ("decrypt_use_count
\* is off by one", security.c) and after it at the other.
SignaturesAgree ==
    \A e \in Ends : \A i \in DOMAIN skGot[e] :
        skGot[e][i].signed <=> /\ skGot[e][i].plain
                               /\ ~(skChecksum /\ i > KeyUses /\ (i - 1) % KeyUses = 0)

(* Both sides use the same keys and sign what they send alike, across the  *)
(* key updates.                                                            *)
KeysAgree ==
    /\ SkTypeOK /\ KeysInStep /\ SignaturesAgree
=============================================================================

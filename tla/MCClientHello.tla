--------------------------- MODULE MCClientHello ---------------------------
(* ClientHello with an RSA, an ECDSA and an Ed25519 key. *)
EXTENDS ClientHello

CONSTANTS rsa, ecdsa, ed

MCsupports ==
    [k \in {rsa, ecdsa, ed} |->
        CASE k = rsa   -> {<<s, 0>> : s \in {"RSA_PSS_SHA256", "RSA_PSS_SHA384", "RSA_PSS_SHA512",
                              "RSA_PKCS1_SHA256", "RSA_PKCS1_SHA384", "RSA_PKCS1_SHA512"}}
          [] k = ecdsa -> {<<"ECDSA_NISTP256_SHA256", 0>>}
          [] k = ed    -> {<<"ED25519", 0>>}]

\* Each scheme alone, and pairs of some: of the same key, of two keys, with one
\* that no key has, and with an unknown one.
Single == {<<s, 0>> : s \in DOMAIN SchemeNumber} \cup {<<"Unknown", 2570>>}
Paired == {<<"RSA_PSS_SHA256", 0>>, <<"ECDSA_NISTP256_SHA256", 0>>, <<"ED25519", 0>>,
           <<"RSA_PKCS1_SHA1", 0>>, <<"Unknown", 2570>>}
MCHellos == {<<>>} \cup {<<s>> : s \in Single} \cup {<<s, t>> : s, t \in Paired}
=============================================================================

------------------------------- MODULE Errors -------------------------------
(***************************************************************************)
(* How an error reaches C.  A C callback judges the server's certificate   *)
(* with a number; the number becomes a rustls error (cert_result_to_error),*)
(* rustls keeps the error, process_new_packets returns it as a number      *)
(* (map_error), and rustls_error turns that number into text, which is     *)
(* rendered from a rustls error again (Display).  Three tables that were   *)
(* written by hand must agree.                                             *)
(*                                                                         *)
(* A result is the number that C sees.  An error is a pair: the variant of *)
(* rustls::Error, and for AlertReceived and InvalidSct the variant within, *)
(* otherwise "".  The other fields, which map_error drops, are left out.   *)
(***************************************************************************)
EXTENDS Naturals, Sequences, FiniteSets, TLC

CONSTANTS
    Foreign,     \* numbers that are no rustls_result
    Lens,        \* sizes of the buffer given to rustls_error
    TextLen,     \* the length of an error text
    UsizeBits    \* the width of usize

ASSUME ErrorsAssumption ==
    /\ TextLen \in Nat /\ UsizeBits \in Nat
    /\ TextLen < 2 ^ UsizeBits
    /\ Lens \subseteq 0 .. 2 ^ UsizeBits - 1
    /\ Foreign \subseteq 0 .. 9999

VARIABLES
    err,        \* the error rustls has kept, or NoError
    verdict,    \* what the verifier callback returned, or NotCalled
    accepted,   \* the certificate was accepted
    result,     \* what process_new_packets returned last
    text        \* what rustls_error returned last

vars == <<err, verdict, accepted, result, text>>

-----------------------------------------------------------------------------
(***************************************************************************)
(* The tables of error.rs.                                                 *)
(***************************************************************************)
rustls_result == 7000 .. 7011 \cup 7100 .. 7120 \cup 7200 .. 7234 \cup 7319 .. 7323
Ok == 7000
InvalidParameter == 7009
General == 7112

\* rustls_result::try_from(n).unwrap_or(default)
try_from(n, default) == IF n \in rustls_result THEN n ELSE default

ErrorCode ==
    [InappropriateMessage |-> 7109, InappropriateHandshakeMessage |-> 7110,
     CorruptMessage |-> 7100, CorruptMessagePayload |-> 7111,
     NoCertificatesPresented |-> 7101, DecryptError |-> 7102,
     PeerIncompatibleError |-> 7107, PeerMisbehavedError |-> 7108,
     UnsupportedNameType |-> 7115, EncryptError |-> 7116,
     FailedToGetCurrentTime |-> 7103, FailedToGetRandomBytes |-> 7113,
     HandshakeNotComplete |-> 7104, PeerSentOversizedRecord |-> 7105,
     NoApplicationProtocol |-> 7106, BadMaxFragmentSize |-> 7114,
     InvalidCertificateEncoding |-> 7117, InvalidCertificateSignatureType |-> 7118,
     InvalidCertificateSignature |-> 7119, InvalidCertificateData |-> 7120,
     General |-> General]

AlertCode ==
    [CloseNotify |-> 7200, UnexpectedMessage |-> 7201, BadRecordMac |-> 7202,
     DecryptionFailed |-> 7203, RecordOverflow |-> 7204, DecompressionFailure |-> 7205,
     HandshakeFailure |-> 7206, NoCertificate |-> 7207, BadCertificate |-> 7208,
     UnsupportedCertificate |-> 7209, CertificateRevoked |-> 7210,
     CertificateExpired |-> 7211, CertificateUnknown |-> 7212,
     IllegalParameter |-> 7213, UnknownCA |-> 7214, AccessDenied |-> 7215,
     DecodeError |-> 7216, DecryptError |-> 7217, ExportRestriction |-> 7218,
     ProtocolVersion |-> 7219, InsufficientSecurity |-> 7220, InternalError |-> 7221,
     InappropriateFallback |-> 7222, UserCanceled |-> 7223, NoRenegotiation |-> 7224,
     MissingExtension |-> 7225, UnsupportedExtension |-> 7226,
     CertificateUnobtainable |-> 7227, UnrecognisedName |-> 7228,
     BadCertificateStatusResponse |-> 7229, BadCertificateHashValue |-> 7230,
     UnknownPSKIdentity |-> 7231, CertificateRequired |-> 7232,
     NoApplicationProtocol |-> 7233, Unknown |-> 7234]

SctCode ==
    [MalformedSct |-> 7319, InvalidSignature |-> 7320, TimestampInFuture |-> 7321,
     UnsupportedSctVersion |-> 7322, UnknownLog |-> 7323]

Errors ==
    {<<v, "">> : v \in DOMAIN ErrorCode}
        \cup {<<"AlertReceived", a>> : a \in DOMAIN AlertCode}
        \cup {<<"InvalidSct", s>> : s \in DOMAIN SctCode}
NoError == <<"", "">>
NotCalled == 70000   \* a number that no callback of the model returns

map_error(e) ==
    CASE e[1] = "AlertReceived" -> AlertCode[e[2]]
      [] e[1] = "InvalidSct"    -> SctCode[e[2]]
      [] OTHER                  -> ErrorCode[e[1]]

CertError ==
    7117 :> <<"InvalidCertificateEncoding", "">> @@ 7118 :> <<"InvalidCertificateSignatureType", "">>
    @@ 7119 :> <<"InvalidCertificateSignature", "">> @@ 7120 :> <<"InvalidCertificateData", "">>
    @@ 7319 :> <<"InvalidSct", "MalformedSct">> @@ 7320 :> <<"InvalidSct", "InvalidSignature">>
    @@ 7321 :> <<"InvalidSct", "TimestampInFuture">>
    @@ 7322 :> <<"InvalidSct", "UnsupportedSctVersion">> @@ 7323 :> <<"InvalidSct", "UnknownLog">>

cert_result_to_error(r) ==
    IF r \in DOMAIN CertError THEN CertError[r] ELSE <<"General", "">>

\* Mutant of is_cert_error: the SCT errors are forgotten.
is_cert_error_without_sct(n) == try_from(n, InvalidParameter) \in 7117 .. 7120

is_cert_error(n) == try_from(n, InvalidParameter) \in 7117 .. 7120 \cup 7319 .. 7323

ErrorText ==
    7100 :> "CorruptMessage" @@ 7101 :> "NoCertificatesPresented" @@ 7102 :> "DecryptError"
    @@ 7103 :> "FailedToGetCurrentTime" @@ 7113 :> "FailedToGetRandomBytes"
    @@ 7104 :> "HandshakeNotComplete" @@ 7105 :> "PeerSentOversizedRecord"
    @@ 7106 :> "NoApplicationProtocol" @@ 7114 :> "BadMaxFragmentSize"
    @@ 7115 :> "UnsupportedNameType" @@ 7116 :> "EncryptError"
    @@ 7117 :> "InvalidCertificateEncoding" @@ 7118 :> "InvalidCertificateSignatureType"
    @@ 7119 :> "InvalidCertificateSignature"

AlertText ==
    <<"CloseNotify", "UnexpectedMessage", "BadRecordMac", "DecryptionFailed",
      "RecordOverflow", "DecompressionFailure", "HandshakeFailure", "NoCertificate",
      "BadCertificate", "UnsupportedCertificate", "CertificateRevoked",
      "CertificateExpired", "CertificateUnknown", "IllegalParameter", "UnknownCA",
      "AccessDenied", "DecodeError", "DecryptError", "ExportRestriction",
      "ProtocolVersion", "InsufficientSecurity", "InternalError",
      "InappropriateFallback", "UserCanceled", "NoRenegotiation", "MissingExtension",
      "UnsupportedExtension", "CertificateUnobtainable", "UnrecognisedName",
      "BadCertificateStatusResponse", "BadCertificateHashValue", "UnknownPSKIdentity",
      "CertificateRequired", "NoApplicationProtocol", "Unknown">>

SctText ==
    <<"MalformedSct", "InvalidSignature", "TimestampInFuture", "UnsupportedSctVersion",
      "UnknownLog">>

\* Mutant of to_string: the alerts are off by one, as when a line is missed.
to_string_shifted(r) ==
    CASE r \in DOMAIN ErrorText -> <<ErrorText[r], "">>
      [] r \in 7200 .. 7233     -> <<"AlertReceived", AlertText[r - 7198]>>
      [] r \in 7319 .. 7323     -> <<"InvalidSct", SctText[r - 7318]>>
      [] OTHER                  -> <<"own", r>>

\* Display: the error whose text stands for the result; <<"own", r>> for a
\* result that has a wording of its own.
to_string(r) ==
    CASE r \in DOMAIN ErrorText -> <<ErrorText[r], "">>
      [] r \in 7200 .. 7234     -> <<"AlertReceived", AlertText[r - 7199]>>
      [] r \in 7319 .. 7323     -> <<"InvalidSct", SctText[r - 7318]>>
      [] OTHER                  -> <<"own", r>>

-----------------------------------------------------------------------------
(***************************************************************************)
(* The calls.                                                              *)
(***************************************************************************)

\* The certificate is accepted when rustls was given no error.
Judged(e) == err' = e /\ accepted' = (e = NoError)

\* Verifier::verify_server_cert, when the callback returns n.
verify_server_cert(n) ==
    LET r == try_from(n, General)
    IN  /\ verdict' = n
        /\ Judged(IF r = Ok THEN NoError ELSE cert_result_to_error(r))

\* Verifier::verify_server_cert, when there is no DNS name or no userdata:
\* the callback is not called.
verify_without_callback == Judged(<<"General", "">>) /\ UNCHANGED verdict

\* rustls_connection_process_new_packets: a kept error is returned again;
\* otherwise rustls may ask the verifier, fail by itself, or succeed.
process_new_packets ==
    /\ \/ err # NoError /\ UNCHANGED <<err, verdict, accepted>>
       \/ /\ err = NoError /\ verdict = NotCalled
          /\ (\E n \in rustls_result \cup Foreign : verify_server_cert(n))
                 \/ verify_without_callback
       \/ err = NoError /\ err' \in Errors \cup {NoError} /\ UNCHANGED <<verdict, accepted>>
    /\ result' = IF err' = NoError THEN Ok ELSE map_error(err')
    /\ UNCHANGED text

\* Mutant of copied: the byte that is left free is forgotten.
copied_all(len) == IF len < TextLen THEN len ELSE TextLen

\* min(len - 1, error_str.len()), where len - 1 wraps around.
copied(len) ==
    LET room == (len + 2 ^ UsizeBits - 1) % 2 ^ UsizeBits
    IN  IF room < TextLen THEN room ELSE TextLen

\* rustls_error(n, buf, len, out_n).  With len = 0 a build that checks for
\* overflow panics, and the boundary returns with nothing written.
rustls_error(n, len) ==
    /\ \/ text' = [of |-> n, len |-> len, out_n |-> copied(len),
                   says |-> to_string(try_from(n, InvalidParameter))]
       \/ len = 0 /\ UNCHANGED text
    /\ UNCHANGED <<err, verdict, accepted, result>>

Init ==
    /\ err = NoError /\ verdict = NotCalled /\ accepted = FALSE /\ result = Ok
    /\ text = [of |-> Ok, len |-> 1, out_n |-> 0, says |-> to_string(Ok)]

Next ==
    \/ process_new_packets
    \/ \E n \in {result} \cup Foreign, len \in Lens : rustls_error(n, len)

Spec == Init /\ [][Next]_vars

-----------------------------------------------------------------------------
(***************************************************************************)
(* Properties.                                                             *)
(***************************************************************************)

IsCertificateError(e) ==
    \/ e[1] = "InvalidSct"
    \/ e \in {<<v, "">> : v \in {"InvalidCertificateEncoding", "InvalidCertificateData",
                  "InvalidCertificateSignature", "InvalidCertificateSignatureType"}}

\* The judgement of the C verifier reaches the caller of process_new_packets:
\* only Ok accepts a certificate, each certificate error comes back as itself,
\* and anything else, numbers that mean nothing included, as General
\* (client.rs:258-264, error.rs:66-83 and 205-281).  And of any error, wherever
\* it came from, rustls_result_is_cert_error tells C the truth (error.rs:47-63).
VerdictReported ==
    /\ accepted => verdict = Ok
    /\ verdict \notin {NotCalled, Ok} =>
           result = IF is_cert_error(verdict) THEN verdict ELSE General
    /\ is_cert_error(result) <=> IsCertificateError(err)

\* The text of a result is the text of the error behind it: where it is
\* rendered from a rustls error, from that very error, and where it has its own
\* wording, from no other error's result (error.rs:283-377 against 205-281).
TextTellsError ==
    err # NoError /\ text.of = map_error(err) =>
        IF text.says[1] = "own"
        THEN \A e \in Errors \ {err} : map_error(e) # text.says[2]
        ELSE text.says = err

\* rustls_error writes less than the buffer holds, so that there is room for a
\* NUL, whatever the size of the buffer and of the text.  A size of zero is
\* outside what it handles (error.rs:38, where len - 1 wraps around).
TextFits == text.len > 0 => text.out_n < text.len
=============================================================================

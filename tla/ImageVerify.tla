----------------------------- MODULE ImageVerify -----------------------------
(***************************************************************************)
(* ImageVerifier of core/security/image_verify.py.  podman, which looks    *)
(* into the local image store, and cosign, which asks the registry, are    *)
(* external programs that are run one after the other.  A tag may refer to *)
(* different images in the two, and be moved in either at any time.        *)
(* Verification of one reference is followed step by step.                 *)
(***************************************************************************)
EXTENDS Integers, FiniteSets

CONSTANTS Names, Digests, Keys, None,
          Stripped,          \* what is left of each name before its first ":"
          Signed,            \* <<key, digest>> pairs with a valid signature
          RequireSignature   \* ImageVerifier.require_signature

VARIABLES trusted,   \* ImageVerifier._trusted
          store,     \* the image each tagged name refers to, locally
          registry,  \* and in its registry
          stage,     \* where verify is
          name,      \* the name in image_ref
          given,     \* the digest in image_ref, None with a tag
          manifest,  \* the manifest that was looked up
          actual,    \* actual_digest
          cosigned,  \* the image cosign looked at
          status     \* VerificationResult.status

image == <<trusted, store, registry, stage, name, given, manifest, actual,
          cosigned, status>>
tags == <<store, registry>>
request == <<name, given, manifest>>

Manifest == [digest: Digests, key: Keys \cup {None}]

ImageInit ==
  /\ trusted = [n \in Names |-> None]
  /\ store \in [Names -> Digests \cup {None}]
  /\ registry \in [Names -> Digests \cup {None}]
  /\ stage = "idle"
  /\ name = None /\ given = None /\ manifest = None
  /\ actual = None /\ cosigned = None /\ status = None

AddTrusted(n, digest, key) ==
  /\ stage = "idle"
  /\ trusted' = [trusted EXCEPT ![n] = [digest |-> digest, key |-> key]]
  /\ UNCHANGED <<tags, stage, request, actual, cosigned, status>>

RemoveTrusted(n) ==
  /\ stage = "idle"
  /\ trusted' = [trusted EXCEPT ![n] = None]
  /\ UNCHANGED <<tags, stage, request, actual, cosigned, status>>

\* The store and the registry are used by other programs as well.
MoveTag(n, digest) ==
  /\ \/ store' = [store EXCEPT ![n] = digest] /\ UNCHANGED registry
     \/ registry' = [registry EXCEPT ![n] = digest] /\ UNCHANGED store
  /\ UNCHANGED <<trusted, stage, request, actual, cosigned, status>>

\* The end of a verification.
Returns(s) == status' = s /\ stage' = "idle"

\* verify of a name with a tag (digest None) or a digest, up to the look at the
\* digest that was given.  The manifest is that of the name before the first
\* ":", which for a registry with a port is only the registry's host.
Verify(n, digest) ==
  /\ stage = "idle"
  /\ name' = n
  /\ given' = digest
  /\ manifest' = trusted[Stripped[n]]
  /\ actual' = digest
  /\ cosigned' = None
  /\ IF manifest' = None THEN Returns("image_not_found")
     ELSE IF digest = None THEN stage' = "inspect" /\ status' = None
     ELSE IF digest # manifest'.digest THEN Returns("digest_mismatch")
     ELSE stage' = "signature" /\ status' = None
  /\ UNCHANGED <<trusted, tags>>

\* podman image inspect of the local image; a missing image, an error and a timeout all read None.
InspectDigest(answer) ==
  /\ stage = "inspect"
  /\ answer \in {store[name], None}
  /\ actual' = answer
  /\ IF answer = None THEN Returns("image_not_found")
     ELSE IF answer # manifest.digest THEN Returns("digest_mismatch")
     ELSE stage' = "signature" /\ status' = None
  /\ UNCHANGED <<trusted, tags, request, cosigned>>

\* What cosign resolves the reference to: the digest, or what the registry has
\* under the tag.
Resolved == IF given # None THEN given ELSE registry[name]

NeedsSignature == manifest.key # None /\ RequireSignature

NoSignatureAsked ==
  /\ stage = "signature"
  /\ ~NeedsSignature
  /\ Returns("verified")
  /\ UNCHANGED <<trusted, tags, request, actual, cosigned>>

\* Mutant: "skipping signature verification" where cosign is not installed.
CosignSkipped(answer) ==
  /\ stage = "signature"
  /\ NeedsSignature
  /\ answer \in {"verified", "signature_invalid", "cosign_unavailable", "unknown"}
  /\ answer = "verified" => <<manifest.key, Resolved>> \in Signed
  /\ cosigned' = IF answer = "verified" THEN Resolved ELSE None
  /\ Returns(IF answer = "cosign_unavailable" THEN "verified" ELSE answer)
  /\ UNCHANGED <<trusted, tags, request, actual>>

\* cosign verify: only a valid signature passes; a missing program and any
\* error of the call fail.
Cosign(answer) ==
  /\ stage = "signature"
  /\ NeedsSignature
  /\ answer \in {"verified", "signature_invalid", "cosign_unavailable", "unknown"}
  /\ answer = "verified" => <<manifest.key, Resolved>> \in Signed
  /\ cosigned' = IF answer = "verified" THEN Resolved ELSE None
  /\ Returns(answer)
  /\ UNCHANGED <<trusted, tags, request, actual>>

ImageNext ==
  \/ \E n \in Names, d \in Digests, k \in Keys \cup {None} : AddTrusted(n, d, k)
  \/ \E n \in Names : RemoveTrusted(n)
  \/ \E n \in Names, d \in Digests \cup {None} : MoveTag(n, d) \/ Verify(n, d)
  \/ \E d \in Digests \cup {None} : InspectDigest(d)
  \/ NoSignatureAsked
  \/ \E a \in {"verified", "signature_invalid", "cosign_unavailable", "unknown"} :
       Cosign(a)

ImageSpec == ImageInit /\ [][ImageNext]_image
-----------------------------------------------------------------------------
ImageTypeOK ==
  /\ trusted \in [Names -> Manifest \cup {None}]
  /\ store \in [Names -> Digests \cup {None}]
  /\ registry \in [Names -> Digests \cup {None}]
  /\ stage \in {"idle", "inspect", "signature"}
  /\ name \in Names \cup {None} /\ given \in Digests \cup {None}
  /\ manifest \in Manifest \cup {None}
  /\ {actual, cosigned} \subseteq Digests \cup {None}
  /\ status \in {None, "verified", "digest_mismatch", "signature_invalid",
                 "cosign_unavailable", "image_not_found", "unknown"}

\* What cosign accepted is signed by the key of the manifest, and is the
\* pinned image if the reference names it by its digest.
SignatureAccepted ==
  /\ <<manifest.key, cosigned>> \in Signed
  /\ given # None => cosigned = manifest.digest

\* "Images must match a pinned SHA256 digest", "optionally verified against
\* Cosign signatures": a verified image is the pinned one and, where a
\* signature is required, cosign has found one by the key of the manifest.
\* That it is of the same image holds only for a reference with a digest: with
\* a tag the digest is that of the local image and the signature that of the
\* image in the registry, which need not be the same one.
VerifiedMeansPinned ==
  status = "verified" =>
    /\ actual = manifest.digest
    /\ NeedsSignature => SignatureAccepted

\* The signature is of the image that is pinned, also where a tag refers to
\* different images locally and in the registry.
SignatureIsOfPinned ==
  (status = "verified" /\ NeedsSignature) => cosigned = manifest.digest
=============================================================================

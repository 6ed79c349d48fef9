----------------------------- MODULE OtaPolicy -----------------------------
(***************************************************************************)
(* The decisions of main/cirvane_ota_policy.c: which releases, URLs,       *)
(* chunks and manifests are accepted.  All are pure.                       *)
(***************************************************************************)
EXTENDS Integers, Sequences, FiniteSetsExt

-----------------------------------------------------------------------------
(* cirvane_ota_release_version_valid, on a sequence of characters.         *)

Digit      == {"0", "1"}  \* "1" stands for every digit that is not zero
VersionMax == 31

\* The place after the run of digits that starts at i.
RunEnd(text, i) ==
  Min({j \in i .. Len(text) + 1 : j = Len(text) + 1 \/ text[j] \notin Digit})

\* The place after the component that starts at i, 0 if there is none: digits,
\* the first of several not a zero.
ComponentEnd(text, i) ==
  IF \/ i > Len(text)
     \/ i < Len(text) /\ text[i] = "0" /\ text[i + 1] \in Digit
     \/ RunEnd(text, i) = i
  THEN 0 ELSE RunEnd(text, i)

\* The same for a component that follows a dot at i.
NextComponentEnd(text, i) ==
  IF i = 0 \/ i > Len(text) THEN 0
  ELSE IF text[i] # "." THEN 0 ELSE ComponentEnd(text, i + 1)

ReleaseVersionValid(text) ==
  /\ text # <<>> /\ text[1] = "v"
  /\ Len(text) \in 6 .. VersionMax
  /\ LET major == ComponentEnd(text, 2)
         minor == NextComponentEnd(text, major)
     IN  NextComponentEnd(text, minor) = Len(text) + 1

-----------------------------------------------------------------------------
(* cirvane_ota_manifest_parse.  A line has a field name and a value that   *)
(* the field's own format accepts or not.                                  *)

\* The lines in the order they must come in, and what is said of a bad one.
Fields ==
  <<[field |-> "header",       verdict |-> "MALFORMED"],
    [field |-> "product",      verdict |-> "IDENTITY"],
    [field |-> "device",       verdict |-> "IDENTITY"],
    [field |-> "version",      verdict |-> "VERSION"],
    [field |-> "sequence",     verdict |-> "MALFORMED"],
    [field |-> "image_size",   verdict |-> "LENGTH"],
    [field |-> "image_sha256", verdict |-> "DIGEST"],
    [field |-> "image_url",    verdict |-> "URL"],
    [field |-> "key_id",       verdict |-> "KEY"],
    [field |-> "signature",    verdict |-> "SIGNATURE"]>>

\* The first line that is missing or wrong decides; none may be left over.
ManifestParse(lines) ==
  LET wrong == {i \in 1 .. Len(Fields) :
                  i > Len(lines) \/ lines[i] # [field |-> Fields[i].field, good |-> TRUE]}
  IN  IF wrong = {} THEN (IF Len(lines) = Len(Fields) THEN "OK" ELSE "MALFORMED")
      ELSE IF Min(wrong) > Len(lines) THEN "MALFORMED"
      ELSE Fields[Min(wrong)].verdict

-----------------------------------------------------------------------------

\* cirvane_ota_manifest_validate.  `flaw' is the first check but the one for
\* replay that a manifest fails.
ManifestValidate(manifest, highest_sequence) ==
  IF manifest.flaw = "VERSION" THEN "VERSION"
  ELSE IF manifest.sequence <= highest_sequence THEN "REPLAY"
  ELSE manifest.flaw

Flaws == {"OK", "VERSION", "LENGTH", "URL", "KEY", "SIGNATURE"}

\* cirvane_ota_url_allowed, of the two prefixes it knows and any other.
UrlAllowed(url, redirect) == url = "release" \/ (redirect /\ url = "assets")

Urls == {"release", "assets", "elsewhere"}

\* cirvane_ota_chunk_fits
ChunkFits(received, chunk_size, limit) ==
  /\ chunk_size > 0
  /\ chunk_size <= limit
  /\ received <= limit - chunk_size

=============================================================================

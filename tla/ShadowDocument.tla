---------------------------- MODULE ShadowDocument ----------------------------
(***************************************************************************)
(* How the document of a shadow update is put together in a buffer: what   *)
(* the builder functions do to the length of the text and to the limit     *)
(* they give to snprintf.  A field has a key and a value; only their       *)
(* lengths matter.  All lengths are the real ones.                         *)
(***************************************************************************)
EXTENDS Integers, Sequences

\* len: strlen of the document; limit: remSizeOfJsonBuffer; rc: the result.
\* Once a step has failed nothing more is written.

\* Mutant: the limit counts characters without the terminator.
SnprintfTight(doc, back, n) ==
  IF doc.rc # "SUCCESS" THEN doc
  ELSE IF n + 1 < doc.limit THEN [doc EXCEPT !.len = @ - back + n]
  ELSE [doc EXCEPT !.len = @ - back + doc.limit - 1, !.rc = "TRUNCATED"]

\* snprintf of n characters, back from the end, and
\* checkReturnValueOfSnPrintf.
Snprintf(doc, back, n) ==
  IF doc.rc # "SUCCESS" THEN doc
  ELSE IF n < doc.limit THEN [doc EXCEPT !.len = @ - back + n]
  ELSE [doc EXCEPT !.len = @ - back + doc.limit - 1, !.rc = "TRUNCATED"]

\* tempSize: past the end of the buffer the difference wraps around.
Measure(doc, max) ==
  LET tempSize == IF doc.len <= max THEN max - doc.len ELSE 2^31 - 1 IN
  IF doc.rc # "SUCCESS" THEN doc
  ELSE IF tempSize <= 1 THEN [doc EXCEPT !.rc = "JSON_ERROR"]
  ELSE [doc EXCEPT !.limit = tempSize]

\* One field: the limit is not measured again between key and value
\* (convertDataToString of a string).
AddField(doc, max, field) ==
  Snprintf(Snprintf(Measure(doc, max), 0, field.key + 3), 0, field.value + 3)

\* aws_iot_shadow_init_json_document
InitDocument(max) ==
  Snprintf([len |-> 0, limit |-> max, rc |-> "SUCCESS"], 0, 10)

\* The loop over the fields: the document after the first n.
AddFields(doc, max, fields) ==
  LET Added[n \in 0..Len(fields)] ==
        IF n = 0 THEN doc ELSE AddField(Added[n - 1], max, fields[n])
  IN Added

\* aws_iot_shadow_add_reported (add_desired is the same with another name).
AddReported(doc, max, fields) ==
  LET opened == Snprintf(Measure(doc, max), 0, 12)
  IN Snprintf(AddFields(opened, max, fields)[Len(fields)], 1, 2)

\* aws_iot_finalize_json_document
Finalize(doc, max, token) ==
  LET closed  == Snprintf(Measure(doc, max), 1, 18)
      filled  == Snprintf(Measure(closed, max), 0, token)
  IN Snprintf(Measure(filled, max), 0, 2)

Document(max, fields, token) ==
  Finalize(AddReported(InitDocument(max), max, fields), max, token)

\* The characters of the first n fields.
FieldSizes(fields) ==
  LET Size[n \in 0..Len(fields)] ==
        IF n = 0 THEN 0 ELSE Size[n - 1] + fields[n].key + fields[n].value + 6
  IN Size

\* The length of {"state":{"reported":{"k":"v",...}}, "clientToken":"t"}.
DocumentSize(fields, token) ==
  10 + 12 + FieldSizes(fields)[Len(fields)] + 1 + 17 + token + 2
=============================================================================

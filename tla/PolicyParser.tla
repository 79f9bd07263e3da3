----------------------------- MODULE PolicyParser -----------------------------
(***************************************************************************)
(* policy_parse of src/policy.c: create an expat parser, open the policy   *)
(* file, feed it to XML_Parse in buffer-sized chunks while each fread      *)
(* fills the buffer, finalise the parse, free the parser and return.       *)
(*                                                                         *)
(* The file is a sequence of units of BufferSize units per chunk (1024     *)
(* bytes in the code; the loop only compares a read's length with the      *)
(* buffer's size, so a smaller buffer keeps every case).  A unit is "ok"   *)
(* or "bad" (a byte expat rejects in the chunk that holds it); a document  *)
(* that is not "complete" ends inside an element, which expat reports only *)
(* when the parse is finalised.  The element handlers only print, and are  *)
(* left out; policy_print_parsing_error is counted, not formatted.         *)
(***************************************************************************)
EXTENDS Naturals, Sequences, SequencesExt

CONSTANTS
  BufferSize,     \* sizeof(buffer) in units
  Documents,      \* the files the path may hold: [units, complete]
  OpenOutcomes,   \* fopen results: "ok", "ENOENT" or another errno
  ReadMayFail,    \* TRUE: an fread may stop short with ferror() set
  ParserCreateMayFail \* TRUE: XML_ParserCreate may return NULL (no memory)

ASSUME /\ BufferSize \in Nat \ {0}
       /\ Documents \subseteq [units : Seq({"ok", "bad"}), complete : BOOLEAN]
       /\ "ok" \in OpenOutcomes
       /\ ReadMayFail \in BOOLEAN
       /\ ParserCreateMayFail \in BOOLEAN

VARIABLES
  pc,         \* where policy_parse is: "init", "open", "read", "finalize", "done"
  doc,        \* the file's content
  opened,     \* fopen succeeded (file != NULL)
  pos,        \* units read by fread so far, all of them handed to XML_Parse
  ferr,       \* ferror(file)
  xmlError,   \* expat is in its error state (it stays there)
  parser,     \* parser->parser is an allocated XML_Parser, not NULL or freed
  printed,    \* calls of policy_print_parsing_error
  ret         \* policy_parse's return value once pc = "done"

vars == <<pc, doc, opened, pos, ferr, xmlError, parser, printed, ret>>

Malformed(d) == ~d.complete \/ Contains(d.units, "bad")

-----------------------------------------------------------------------------
(* policy_parse starts on PolicyParser parser = POLICY_PARSER_NULL. *)
Init ==
  /\ pc = "init"
  /\ doc \in Documents
  /\ opened = FALSE
  /\ pos = 0
  /\ ferr = FALSE
  /\ xmlError = FALSE
  /\ parser = FALSE
  /\ printed = 0
  /\ ret = "none"

(***************************************************************************)
(* policy_parser_init: XML_ParserCreate and the handlers.  The result is   *)
(* not checked; expat's API functions return at once on a NULL parser      *)
(* (XML_Parse with XML_STATUS_ERROR), so the load goes on with it.         *)
(***************************************************************************)
policy_parser_init ==
  /\ pc = "init"
  /\ parser' \in IF ParserCreateMayFail THEN BOOLEAN ELSE {TRUE}
  /\ pc' = "open"
  /\ UNCHANGED <<doc, opened, pos, ferr, xmlError, printed, ret>>

(***************************************************************************)
(* The fopen of policy_parser_parse_file.  ENOENT makes parse_file return  *)
(* 0 and policy_parse go on to finalise; any other errno is returned by    *)
(* policy_parse at once, before policy_parser_deinit.                      *)
(***************************************************************************)
policy_parser_parse_file_open ==
  /\ pc = "open"
  /\ \E outcome \in OpenOutcomes :
       /\ opened' = (outcome = "ok")
       /\ CASE outcome = "ok"     -> pc' = "read" /\ UNCHANGED ret
            [] outcome = "ENOENT" -> pc' = "finalize" /\ UNCHANGED ret
            [] OTHER              -> pc' = "done" /\ ret' = outcome
  /\ UNCHANGED <<doc, pos, ferr, xmlError, parser, printed>>

(* Mutant: no loop, a single fread. *)
single_read(len) == FALSE

(* Mutant: "len <= sizeof(buffer)", which holds at end of file too. *)
read_while_not_over(len) == len <= BufferSize

(* The loop condition of policy_parser_parse_file: read on while a read *)
(* filled the buffer.                                                   *)
ReadContinues(len) == len = BufferSize

(* The lengths an fread can return with the units it has left to read. *)
ReadLengths(avail) ==
  LET full == IF avail < BufferSize THEN avail ELSE BufferSize
  IN  {<<full, FALSE>>} \cup
      IF ReadMayFail
      THEN {<<len, TRUE>> : len \in IF full = 0 THEN {0} ELSE 0..(full - 1)}
      ELSE {}

(* Mutant: XML_Parse handed sizeof(buffer) bytes instead of len. *)
parse_whole_buffer(r) ==
  /\ pc = "read"
  /\ LET len == r[1]
         bad == xmlError \/ ~parser \/ Contains(SubSeq(doc.units, pos + 1, pos + len), "bad")
     IN  /\ ferr' = (ferr \/ r[2])
         /\ IF len = 0 /\ ferr'
            THEN /\ pc' = "done" /\ ret' = "EIO"
                 /\ UNCHANGED <<pos, xmlError, printed>>
            ELSE /\ pos' = pos + BufferSize
                 /\ xmlError' = bad
                 /\ printed' = IF bad THEN printed + 1 ELSE printed
                 /\ pc' = IF ~bad /\ ReadContinues(len) THEN "read"
                          ELSE "finalize"
                 /\ UNCHANGED ret
  /\ UNCHANGED <<doc, opened, parser>>

(***************************************************************************)
(* One iteration of the do/while loop of policy_parser_parse_file, fread   *)
(* having returned r = <<len, ferror>>: EIO returned by policy_parse if it *)
(* read nothing and ferror is set; else XML_Parse of the chunk             *)
(* (INVALID_XML: policy_parse prints the error and goes on to finalise),   *)
(* then the loop condition.                                                *)
(***************************************************************************)
policy_parser_parse_file_read(r) ==
  /\ pc = "read"
  /\ LET len == r[1]
         chunk == SubSeq(doc.units, pos + 1, pos + len)
         bad == xmlError \/ ~parser \/ Contains(chunk, "bad")
     IN  /\ ferr' = (ferr \/ r[2])
         /\ IF len = 0 /\ ferr'
            THEN /\ pc' = "done"
                 /\ ret' = "EIO"
                 /\ UNCHANGED <<pos, xmlError, printed>>
            ELSE /\ pos' = pos + len
                 /\ xmlError' = bad
                 /\ printed' = IF bad THEN printed + 1 ELSE printed
                 /\ pc' = IF ~bad /\ ReadContinues(len) THEN "read"
                          ELSE "finalize"
                 /\ UNCHANGED ret
  /\ UNCHANGED <<doc, opened, parser>>

Read == \E r \in ReadLengths(Len(doc.units) - pos) :
          policy_parser_parse_file_read(r)

(* fread without an error: what the thread does if the disk does not fail. *)
ReadWithoutError == \E r \in ReadLengths(Len(doc.units) - pos) :
                      ~r[2] /\ policy_parser_parse_file_read(r)

(***************************************************************************)
(* policy_parser_finalize (XML_Parse with isFinal), printing the error if  *)
(* it fails, then policy_parser_deinit and return 0.  The final parse      *)
(* fails if the parser is NULL or in its error state, or what it was fed   *)
(* is not the whole of a complete document with a root element.            *)
(***************************************************************************)
policy_parser_finalize ==
  /\ pc = "finalize"
  /\ LET bad == \/ xmlError
                \/ ~parser
                \/ pos < Len(doc.units)
                \/ Malformed(doc)
                \/ pos = 0
     IN  /\ xmlError' = bad
         /\ printed' = IF bad THEN printed + 1 ELSE printed
  /\ parser' = FALSE
  /\ pc' = "done"
  /\ ret' = "0"
  /\ UNCHANGED <<doc, opened, pos, ferr>>

Next ==
  \/ policy_parser_init
  \/ policy_parser_parse_file_open
  \/ Read
  \/ policy_parser_finalize

(***************************************************************************)
(* policy_parse runs on one thread and never waits: each of its steps is   *)
(* taken once enabled.  A failing fread is the disk's choice, so fairness  *)
(* covers the error-free read only.                                        *)
(***************************************************************************)
Fairness ==
  /\ WF_vars(policy_parser_init)
  /\ WF_vars(policy_parser_parse_file_open)
  /\ WF_vars(ReadWithoutError)
  /\ WF_vars(policy_parser_finalize)

Spec == Init /\ [][Next]_vars /\ Fairness

-----------------------------------------------------------------------------
TypeOK ==
  /\ pc \in {"init", "open", "read", "finalize", "done"}
  /\ doc \in Documents
  /\ pos \in 0..Len(doc.units)
  /\ opened \in BOOLEAN /\ ferr \in BOOLEAN /\ xmlError \in BOOLEAN /\ parser \in BOOLEAN
  /\ printed \in 0..2
  /\ ret \in {"none", "0", "EIO"} \cup OpenOutcomes

(***************************************************************************)
(* The read loop of policy_parser_parse_file hands the whole file to expat *)
(* before the parse is finalised, unless a read or the parse failed: in    *)
(* particular when the file's length is a multiple of the buffer size and  *)
(* the last fread returns 0.                                               *)
(***************************************************************************)
WholeFileFedBeforeFinalize ==
  (pc = "finalize" /\ opened /\ ~ferr /\ ~xmlError) => pos = Len(doc.units)

(* policy_parse returns: the read loop stops at the end of the file. *)
ParseTerminates == <>(pc = "done")

(***************************************************************************)
(* Spec 4.5 and 7: a load that fails (a malformed document, a document     *)
(* that cannot be read, no memory) is aborted with an error.  policy_parse *)
(* returns 0 only if it read the whole file and expat accepted it: an      *)
(* INVALID_XML is printed and finalised, an fread that stops short with    *)
(* ferror() set ends the loop like the end of the file, and a NULL         *)
(* XML_Parser fails every XML_Parse, all without an error being returned.  *)
(***************************************************************************)
ParseFailureReported ==
  (pc = "done" /\ opened /\ (xmlError \/ ferr)) => ret # "0"

(***************************************************************************)
(* Spec 4.5: on failure the partial state is discarded.  The returns of    *)
(* fopen's errno and EIO leave policy_parse before policy_parser_deinit,   *)
(* so the expat parser is never freed.                                     *)
(***************************************************************************)
ParserFreedOnReturn ==
  pc = "done" => ~parser

=============================================================================

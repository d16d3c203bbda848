----------------------------- MODULE TemplateName -----------------------------
(***************************************************************************)
(* The output path computed by create_filzl_app's format_template: a       *)
(* template's relative name with its bracket placeholders ("[project_name]"*)
(* in "/path/to/[project_name]/file.txt") replaced by the project's        *)
(* metadata.  Strings are sequences of one-character strings.  The Jinja   *)
(* rendering of the file's content is a black box and is not modelled.     *)
(***************************************************************************)
EXTENDS Naturals, Sequences, SequencesExt

CONSTANTS Keys,      \* ProjectMetadata.model_dump() keys, in field order
          Templates, \* template names a caller may pass
          Existing,  \* the names that exist under templates/project
          Values     \* str(value) of a metadata field

VARIABLES name, metadata, output

vars == <<name, metadata, output>>

NoOutput == <<"none">>
NotFound == <<"FileNotFoundError">>

\* "[" + key + "]"
Placeholder(key) == <<"[">> \o key \o <<"]">>

\* str.replace(old, new): every non-overlapping occurrence of old, found
\* from left to right, is replaced by new; the result is not rescanned.
RECURSIVE StrReplace(_, _, _)
StrReplace(s, old, new) ==
    IF Len(s) < Len(old) THEN s
    ELSE IF SubSeq(s, 1, Len(old)) = old
         THEN new \o StrReplace(SubSeq(s, Len(old) + 1, Len(s)), old, new)
         ELSE <<Head(s)>> \o StrReplace(Tail(s), old, new)

\* output_name = name; for key, value in metadata_variables.items():
\*     output_name = output_name.replace(f"[{key}]", str(value))
FormatTemplateName(n, values) ==
    FoldLeft(LAMBDA out, i : StrReplace(out, Placeholder(Keys[i]), values[i]),
             n, [i \in 1..Len(Keys) |-> i])

Init ==
    /\ name \in Templates
    /\ metadata \in [1..Len(Keys) -> Values]
    /\ output = NoOutput

\* format_template(name, project_metadata): a missing template raises
\* FileNotFoundError; otherwise the content is rendered and the path formed.
FormatTemplate ==
    /\ output = NoOutput
    /\ output' = IF name \in Existing THEN FormatTemplateName(name, metadata)
                                      ELSE NotFound
    /\ UNCHANGED <<name, metadata>>

Spec == Init /\ [][FormatTemplate]_vars

-----------------------------------------------------------------------------
(* Reference: the docstring's bracket syntax, read as one left-to-right    *)
(* pass over the template name that replaces each placeholder it meets and *)
(* copies everything else, metadata values included, verbatim.            *)

RECURSIVE Substitute(_, _)
Substitute(s, values) ==
    IF s = <<>> THEN <<>>
    ELSE IF \E i \in 1..Len(Keys) : IsPrefix(Placeholder(Keys[i]), s)
    THEN LET i == CHOOSE j \in 1..Len(Keys) : IsPrefix(Placeholder(Keys[j]), s)
         IN values[i] \o Substitute(SubSeq(s, Len(Placeholder(Keys[i])) + 1,
                                           Len(s)), values)
    ELSE <<Head(s)>> \o Substitute(Tail(s), values)

\* The output path of format_template is the template name with each of its
\* own placeholders replaced by the metadata value, once: a value is never
\* itself searched for placeholders.
FormatMatchesReference ==
    output \notin {NoOutput, NotFound} => output = Substitute(name, metadata)
=============================================================================

---------------------------- MODULE ContractData ----------------------------
(***************************************************************************)
(* What a contract's calls work on: the RDF model that becomes the change  *)
(* set of a phase (RDFModelHelper and its subjects, predicates and         *)
(* objects), the RDF store its own reads come from (RDFMemorySession), the *)
(* strings the host and the contract hand each other (WavmUtils) and the   *)
(* memory they lie in (allocateMemory).  Functions without a state.        *)
(*                                                                         *)
(* A URL is a tuple of its parts, a value a record [type, text].           *)
(***************************************************************************)
EXTENDS Integers, Sequences, FiniteSets

Value(type, text) == [type |-> type, text |-> text]

----------------------------------------------------------------------------
(* RDFURLUtils: a model's URL is its base and its name.                    *)

SubjectUrl(model, id) == <<model.base, model.name, id>>
PredicateUrl(model, predicate) == <<model.base, predicate>>

----------------------------------------------------------------------------
(* The model: subjects in the order they were first named, under each its  *)
(* predicates, under each its objects in the order they were added.        *)

Elements(sequence) == {sequence[i] : i \in DOMAIN sequence}

HasSubject(model, s) == \E x \in Elements(model) : x.subject = s
HasPredicate(predicates, p) == \E x \in Elements(predicates) : x.predicate = p

GetSubject(model, s) ==
    IF HasSubject(model, s) THEN model ELSE Append(model, [subject |-> s, predicates |-> << >>])

GetPredicate(predicates, p) ==
    IF HasPredicate(predicates, p) THEN predicates
    ELSE Append(predicates, [predicate |-> p, objects |-> << >>])

AddObject(predicates, p, v) ==
    [i \in DOMAIN predicates |->
        IF predicates[i].predicate = p
        THEN [predicates[i] EXCEPT !.objects = Append(@, v)] ELSE predicates[i]]

AddModelEntry(model, s, p, v) ==
    LET named == GetSubject(model, s)
    IN  [i \in DOMAIN named |->
            IF named[i].subject = s
            THEN [named[i] EXCEPT !.predicates = AddObject(GetPredicate(@, p), p, v)]
            ELSE named[i]]

\* The objects of a predicate of a subject.
ListObjects(model, s, p) ==
    LET predicates == (CHOOSE x \in Elements(model) : x.subject = s).predicates
    IN  (CHOOSE x \in Elements(predicates) : x.predicate = p).objects

Subjects(model) == {x.subject : x \in Elements(model)}

----------------------------------------------------------------------------
(* The store of a session: a set of statements.  A value that is set again *)
(* stays beside the first, and a read takes the one the library lists      *)
(* first.  A read converts the text to the type that is asked for.         *)

SetValue(store, s, p, v) == store \cup {<<s, p, v>>}
Targets(store, s, p) == {x \in store : x[1] = s /\ x[2] = p}

\* compare is 0 for equal strings: a boolean is read as the contrary of its text.
BooleanText(text) == IF text = "true" THEN "false" ELSE "true"

ReadAs(type, text) ==
    CASE type = "boolean" -> Value(type, BooleanText(text))
      [] type \in {"long", "float"} /\ text \in {"true", "false"} -> Value(type, 0)
      [] OTHER -> Value(type, text)

\* What a read may return; nothing, and it throws, where nothing was set.
GetValue(store, type, s, p) == {ReadAs(type, x[3].text) : x \in Targets(store, s, p)}

----------------------------------------------------------------------------
(* Strings: a length in digits to the base 100, of which the host writes   *)
(* four and reads three, then two bytes for each character.                *)

LengthDigits(length) ==
    <<length % 100, (length \div 100) % 100, (length \div 10000) % 100,
      (length \div 1000000) % 100>>
ReadLength(digits) == digits[1] + digits[2] * 100 + digits[3] * 10000
StringBytes(length) == 4 + 2 * length

----------------------------------------------------------------------------
(* allocateMemory: the pages that the memory grows by begin where it ended. *)
(* The bytes of the memory are an int: at its limit the pages asked for are *)
(* more than there can be, growMemory fails, and the string is put outside  *)
(* of the memory, which throws.                                             *)

PageBytes == 65536
RoundUp(n, unit) == ((n + unit - 1) \div unit) * unit

\* (A slip: the pages are rounded down.)
DesiredPagesDown(pages, bytes) == (pages * PageBytes + RoundUp(bytes, 8)) \div PageBytes

Exhausted(pages, bytes, limit) == pages * PageBytes + RoundUp(bytes, 8) >= limit

DesiredPages(pages, bytes) ==
    (pages * PageBytes + RoundUp(bytes, 8) + PageBytes - 1) \div PageBytes

AllocateMemory(pages, bytes) ==
    [base |-> pages * PageBytes,
     pages |-> IF DesiredPages(pages, bytes) > pages THEN DesiredPages(pages, bytes) ELSE pages]
=============================================================================

------------------------------ MODULE HidlString ------------------------------
(***************************************************************************)
(* hidl_string (base/HidlSupport.cpp): a pointer to characters that it     *)
(* owns, borrows (setToExternal) or that are the literal kEmptyString.  To *)
(* its user it is a value like std::string: value[s] is that value.        *)
(*                                                                         *)
(* A constructor from data is hidl_string() followed by the same copyFrom  *)
(* or moveFrom as the assignment, whose clear() finds nothing to free.     *)
(* The client keeps lent characters allocated while a string borrows them, *)
(* and passes to operator= and setToExternal no characters of the string   *)
(* itself, which clear() frees first.                                      *)
(***************************************************************************)
EXTENDS Naturals, Sequences

CONSTANTS Strings,        \* hidl_string objects
          Blocks,         \* addresses of character arrays
          Texts,          \* their contents, sequences of characters
          kEmptyString,   \* the address of ""
          Freed           \* the content of an array that is not allocated

Characters == UNION {{t[i] : i \in DOMAIN t} : t \in Texts}

ASSUME HidlStringAssumption ==
    /\ kEmptyString \notin Blocks
    /\ \A t \in Texts : t \in Seq(Characters)
    /\ Freed \notin Seq(Characters)

VARIABLES strings,        \* strings that are constructed
          sBuffer, sSize, sOwnsBuffer,
          text,           \* the content of an array
          lent,           \* arrays that belong to the client
          value           \* the value a user of the string expects

stringVars == <<strings, sBuffer, sSize, sOwnsBuffer, text, lent, value>>

StringInit ==
    /\ strings = {}
    /\ sBuffer = [s \in Strings |-> kEmptyString]
    /\ sSize = [s \in Strings |-> 0]
    /\ sOwnsBuffer = [s \in Strings |-> FALSE]
    /\ text = [b \in Blocks |-> Freed]
    /\ lent = {}
    /\ value = [s \in Strings |-> <<>>]

(* std::string(mBuffer, mSize).                                            *)
Read(s) == IF sBuffer[s] = kEmptyString THEN <<>>
           ELSE SubSeq(text[sBuffer[s]], 1, sSize[s])

(* Plausible bugs, used only to show that the properties can fail.         *)
ClearNothing(s) == text
MoveWithoutClear(s, w) ==
    /\ sBuffer' = [sBuffer EXCEPT ![s] = sBuffer[w]]
    /\ sSize' = [sSize EXCEPT ![s] = sSize[w]]
    /\ sOwnsBuffer' = [sOwnsBuffer EXCEPT ![s] = sOwnsBuffer[w], ![w] = FALSE]

-----------------------------------------------------------------------------
(* clear(): the arrays that are left when s has freed its own.             *)
Cleared(s) == [b \in Blocks |->
                  IF sOwnsBuffer[s] /\ sBuffer[s] = b THEN Freed ELSE text[b]]

SetString(s, b, n, owns) ==
    /\ sBuffer' = [sBuffer EXCEPT ![s] = b]
    /\ sSize' = [sSize EXCEPT ![s] = n]
    /\ sOwnsBuffer' = [sOwnsBuffer EXCEPT ![s] = owns]

(* clear() and copyFrom(t): always an array, for an empty text too.        *)
CopyFromText(s, t) ==
    \E b \in Blocks :
        /\ Cleared(s)[b] = Freed
        /\ text' = [Cleared(s) EXCEPT ![b] = t]
        /\ SetString(s, b, Len(t), TRUE)

(* moveFrom(w): w gives up the ownership first, so its clear() frees       *)
(* nothing and leaves it empty.                                            *)
MoveFromString(s, w) ==
    /\ sBuffer' = [sBuffer EXCEPT ![s] = sBuffer[w], ![w] = kEmptyString]
    /\ sSize' = [sSize EXCEPT ![s] = sSize[w], ![w] = 0]
    /\ sOwnsBuffer' = [sOwnsBuffer EXCEPT ![s] = sOwnsBuffer[w], ![w] = FALSE]

ConstructString(s) ==
    /\ s \notin strings
    /\ strings' = strings \union {s}
    /\ SetString(s, kEmptyString, 0, FALSE)
    /\ value' = [value EXCEPT ![s] = <<>>]
    /\ UNCHANGED <<text, lent>>

(* From a C string or a std::string.                                       *)
AssignText(s, t) ==
    /\ s \in strings
    /\ CopyFromText(s, t)
    /\ value' = [value EXCEPT ![s] = t]
    /\ UNCHANGED <<strings, lent>>

(* clear(), and operator= with a null pointer.                             *)
Clear(s) ==
    /\ s \in strings
    /\ text' = Cleared(s)
    /\ SetString(s, kEmptyString, 0, FALSE)
    /\ value' = [value EXCEPT ![s] = <<>>]
    /\ UNCHANGED <<strings, lent>>

(* Both assignments do nothing for s itself.                               *)
CopyAssignString(s, w) ==
    /\ s \in strings /\ w \in strings \ {s}
    /\ CopyFromText(s, Read(w))
    /\ value' = [value EXCEPT ![s] = value[w]]
    /\ UNCHANGED <<strings, lent>>

MoveAssignString(s, w) ==
    /\ s \in strings /\ w \in strings \ {s}
    /\ text' = Cleared(s)
    /\ MoveFromString(s, w)
    /\ value' = [value EXCEPT ![s] = value[w], ![w] = <<>>]
    /\ UNCHANGED <<strings, lent>>

(* setToExternal(): the first n characters of an array of the client.      *)
SetToExternalString(s, b, n) ==
    /\ s \in strings
    /\ text' = Cleared(s)
    /\ SetString(s, b, n, FALSE)
    /\ value' = [value EXCEPT ![s] = SubSeq(text[b], 1, n)]
    /\ UNCHANGED <<strings, lent>>

DestroyString(s) ==
    /\ s \in strings
    /\ strings' = strings \ {s}
    /\ text' = Cleared(s)
    /\ SetString(s, kEmptyString, 0, FALSE)
    /\ value' = [value EXCEPT ![s] = <<>>]
    /\ UNCHANGED lent

ClientLends(b, t) ==
    /\ text[b] = Freed
    /\ text' = [text EXCEPT ![b] = t]
    /\ lent' = lent \union {b}
    /\ UNCHANGED <<strings, sBuffer, sSize, sOwnsBuffer, value>>

ClientFrees(b) ==
    /\ b \in lent
    /\ \A s \in strings : sBuffer[s] # b
    /\ text' = [text EXCEPT ![b] = Freed]
    /\ lent' = lent \ {b}
    /\ UNCHANGED <<strings, sBuffer, sSize, sOwnsBuffer, value>>

StringNext ==
    \/ \E s \in Strings :
          \/ ConstructString(s) \/ Clear(s) \/ DestroyString(s)
          \/ \E t \in Texts : AssignText(s, t)
          \/ \E w \in Strings : CopyAssignString(s, w) \/ MoveAssignString(s, w)
          \/ \E b \in lent : \E n \in 0..Len(text[b]) : SetToExternalString(s, b, n)
    \/ \E b \in Blocks : ClientFrees(b) \/ \E t \in Texts : ClientLends(b, t)

StringSpec == StringInit /\ [][StringNext]_stringVars

-----------------------------------------------------------------------------
(***************************************************************************)
(* A hidl_string has value semantics: whatever is copied, moved, lent,     *)
(* cleared or destroyed, in whatever order, c_str() and size() of every    *)
(* string give the value it was last assigned, and none of them points to  *)
(* freed memory.                                                           *)
(***************************************************************************)
StringKeepsValue ==
    \A s \in strings :
        /\ sBuffer[s] # kEmptyString => text[sBuffer[s]] # Freed
        /\ Read(s) = value[s]
        /\ sSize[s] = Len(value[s])

(***************************************************************************)
(* Every allocated character array has exactly one owner: the client that  *)
(* lent it, or one string, whose clear() frees it.                         *)
(***************************************************************************)
StringBlockHasOneOwner ==
    \A b \in Blocks : text[b] # Freed =>
        LET owners == {s \in strings : sOwnsBuffer[s] /\ sBuffer[s] = b}
        IN  IF b \in lent THEN owners = {} ELSE \E s \in strings : owners = {s}
==============================================================================

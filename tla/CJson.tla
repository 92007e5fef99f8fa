------------------------------- MODULE CJson -------------------------------
(***************************************************************************)
(* cJSON.c as getBuyerID uses it: cJSON_Parse builds a tree of items from  *)
(* a text, cJSON_Print renders an item of the tree, and the caller deletes *)
(* the tree and frees the rendering.  Every malloc may fail.               *)
(*                                                                         *)
(* Abstraction.  A text is a sequence of tokens; white space, escapes and  *)
(* the digits of numbers are left out.  A scalar is a number, null, true   *)
(* or false, none of which needs a block.  A text may end inside a string  *)
(* ("open") or right behind a backslash in it ("torn").                    *)
(***************************************************************************)
EXTENDS Naturals, Sequences, FiniteSets

CONSTANTS
  Scalars, Strings,   \* tokens that are values
  Texts,              \* what cJSON_Parse may be given
  MaxLen              \* bound on the length of a text

ASSUME TokensAssumption ==
  /\ (Scalars \cup Strings) \cap {"[", "]", "{", "}", ",", ":", "open", "torn", "NUL"} = {}
  /\ Strings # {} /\ "false" \in Scalars
Tokens == Scalars \cup Strings \cup {"[", "]", "{", "}", ",", ":"}
ASSUME TextsAssumption ==
  /\ MaxLen \in Nat
  /\ \A t \in Texts : /\ t \in Seq(Tokens \cup {"open", "torn"}) /\ Len(t) <= MaxLen
                       /\ \A i \in 1 .. Len(t) : t[i] \in {"open", "torn"} => i = Len(t)

VARIABLES
  text, at,   \* the text and the index of the token `value' points at
  heap,       \* every block ever allocated; a pointer is an index, 0 is NULL
  live,       \* the blocks that are not freed
  root,       \* what cJSON_Parse will return
  cur,        \* the item of the parse_value or print_value that is running
  stack,      \* the parse_array, parse_object or print_... calls around it
  ret,        \* what the last print_value returned
  oom,        \* a malloc has failed
  pc

vars == <<text, at, heap, live, root, cur, stack, ret, oom, pc>>

-----------------------------------------------------------------------------
Tok == IF at <= Len(text) THEN text[at] ELSE "NUL"
Ahead == IF at + 1 <= Len(text) THEN text[at + 1] ELSE "NUL"

\* cJSON_New_Item zeroes the item, and cJSON_False is 0.
NewItem == [type |-> "Scalar", value |-> "false", child |-> 0, next |-> 0,
            string |-> 0, valuestring |-> 0]
Chars(tokens) == [text |-> tokens]
Pointers == [p |-> "char **"]
New == Len(heap) + 1
Top == stack[Len(stack)]
Pop == SubSeq(stack, 1, Len(stack) - 1)
SetTop(frame) == [stack EXCEPT ![Len(stack)] = frame]

\* parse_string takes a string that the text ends in for a whole one.
OpenText == CHOOSE s \in Strings : TRUE
IsString(tok) == tok \in Strings \cup {"open"}
Content(tok) == <<IF tok = "open" THEN OpenText ELSE tok>>

Opening == {"[", "{"}
Closing(tok) == IF tok \in {"[", "Array"} THEN "]" ELSE "}"
Opened(type) == IF type = "Array" THEN "[" ELSE "{"
TypeOf(tok) == IF tok = "[" THEN "Array" ELSE "Object"

\* Whether block i is an item; the others are texts and arrays of pointers.
IsItem(i) == "type" \in DOMAIN heap[i]

\* The items cJSON_Delete(c) passes through, and all it frees.  A child and
\* a next are allocated after the item that leads to them.
Items(c) ==
  LET below[i \in 0 .. Len(heap)] ==
        IF i = 0 \/ ~IsItem(i) THEN {}
        ELSE {i} \cup below[heap[i].child] \cup below[heap[i].next]
  IN below[c]
Blocks(c) == (UNION {{i, heap[i].string, heap[i].valuestring} : i \in Items(c)}) \ {0}

Init ==
  /\ text \in Texts /\ at = 1
  /\ heap = <<>> /\ live = {}
  /\ root = 0 /\ cur = 0 /\ stack = <<>> /\ ret = 0
  /\ oom = FALSE /\ pc = "start"

\* cJSON_ParseWithOpts; cJSON_Parse asks for no NUL behind the value.
Parse ==
  /\ pc = "start"
  /\ \/ /\ heap' = Append(heap, NewItem) /\ live' = live \cup {New}
        /\ root' = New /\ cur' = New /\ pc' = "value"
        /\ UNCHANGED oom
     \/ /\ oom' = TRUE /\ pc' = "null"
        /\ UNCHANGED <<heap, live, root, cur>>
  /\ UNCHANGED <<text, at, stack, ret>>

\* A value that has come to its end: parse_value returns behind it.
Read(n) == at' = at + n /\ UNCHANGED <<text, root, ret, oom>>

ParseScalar ==
  /\ pc = "value" /\ Tok \in Scalars
  /\ heap' = [heap EXCEPT ![cur].type = "Scalar", ![cur].value = Tok]
  /\ pc' = "after" /\ Read(1)
  /\ UNCHANGED <<live, cur, stack>>

\* parse_string, called by parse_value.
ParseString ==
  /\ pc = "value" /\ IsString(Tok)
  /\ heap' = Append([heap EXCEPT ![cur].type = "String", ![cur].valuestring = New],
                    Chars(Content(Tok)))
  /\ live' = live \cup {New}
  /\ pc' = "after" /\ Read(1)
  /\ UNCHANGED <<cur, stack>>

ParseEmpty ==
  /\ pc = "value" /\ Tok \in Opening /\ Ahead = Closing(Tok)
  /\ heap' = [heap EXCEPT ![cur].type = TypeOf(Tok)]
  /\ pc' = "after" /\ Read(2)
  /\ UNCHANGED <<live, cur, stack>>

\* The next child of the container `type' is made and parsed.
Descend(type) == cur' = New /\ pc' = IF type = "Array" THEN "value" ELSE "name"

ParseContainer ==
  /\ pc = "value" /\ Tok \in Opening /\ Ahead # Closing(Tok)
  /\ heap' = Append([heap EXCEPT ![cur].type = TypeOf(Tok), ![cur].child = New], NewItem)
  /\ live' = live \cup {New}
  /\ stack' = Append(stack, [type |-> TypeOf(Tok), child |-> New])
  /\ Descend(TypeOf(Tok)) /\ Read(1)

\* Mutant: child->valuestring is not reset.
NamedTwice(item) == [item EXCEPT !.string = New, !.valuestring = New, !.type = "String"]
\* parse_string, called by parse_object: the string becomes the name.
Named(item) == [item EXCEPT !.string = New, !.valuestring = 0, !.type = "String"]

ParseName ==
  /\ pc = "name" /\ IsString(Tok)
  /\ heap' = Append([heap EXCEPT ![cur] = Named(@)], Chars(Content(Tok)))
  /\ live' = live \cup {New}
  /\ pc' = "colon" /\ Read(1)
  /\ UNCHANGED <<cur, stack>>

\* Mutant: the token behind a name is stepped over and not looked at.
ParseColonUnseen ==
  /\ pc = "colon" /\ Tok # "NUL"
  /\ pc' = "value" /\ Read(1)
  /\ UNCHANGED <<heap, live, cur, stack>>
ParseColon ==
  /\ pc = "colon" /\ Tok = ":"
  /\ pc' = "value" /\ Read(1)
  /\ UNCHANGED <<heap, live, cur, stack>>

NextChild ==
  /\ pc = "after" /\ stack # <<>> /\ Tok = ","
  /\ heap' = Append([heap EXCEPT ![Top.child].next = New], NewItem)
  /\ live' = live \cup {New}
  /\ stack' = SetTop([Top EXCEPT !.child = New])
  /\ Descend(Top.type) /\ Read(1)

EndContainer ==
  /\ pc = "after" /\ stack # <<>> /\ Tok = Closing(Top.type)
  /\ stack' = Pop
  /\ Read(1)
  /\ UNCHANGED <<heap, live, cur, pc>>

Parsed ==
  /\ pc = "after" /\ stack = <<>>
  /\ pc' = "parsed"
  /\ UNCHANGED <<text, at, heap, live, root, cur, stack, ret, oom>>

\* NULL is handed up through all callers; cJSON_ParseWithOpts deletes the root.
GiveUp ==
  /\ live' = live \ Blocks(root)
  /\ root' = 0 /\ stack' = <<>> /\ pc' = "null"
  /\ UNCHANGED <<text, at, heap, cur, ret>>

ParseNoMemory ==
  /\ \/ pc \in {"value", "name"} /\ IsString(Tok)
     \/ pc = "value" /\ Tok \in Opening /\ Ahead # Closing(Tok)
     \/ pc = "after" /\ stack # <<>> /\ Tok = ","
  /\ oom' = TRUE
  /\ GiveUp

Malformed ==
  /\ \/ pc = "value" /\ ~IsString(Tok) /\ Tok \notin Scalars \cup Opening \cup {"torn"}
     \/ pc = "name" /\ ~IsString(Tok) /\ Tok # "torn"
     \/ pc = "colon" /\ Tok # ":"
     \/ pc = "after" /\ stack # <<>> /\ Tok \notin {",", Closing(Top.type)}
  /\ UNCHANGED oom
  /\ GiveUp

\* The scan for the closing quote steps over what follows a backslash, the
\* NUL too, and reads on behind the text.
ScanPastEnd ==
  /\ pc \in {"value", "name"} /\ Tok = "torn"
  /\ pc' = "undefined"
  /\ UNCHANGED <<text, at, heap, live, root, cur, stack, ret, oom>>

-----------------------------------------------------------------------------
(* cJSON_Print.                                                            *)

\* The caller asks for a rendering of an item, or passes NULL.
PrintItem ==
  /\ pc = "parsed"
  /\ \E i \in Items(root) \cup {0} : cur' = i
  /\ pc' = "print"
  /\ UNCHANGED <<text, at, heap, live, root, stack, ret, oom>>

\* print_value returns a text that it allocates, or NULL.
ReturnNew(tokens) ==
  /\ heap' = Append(heap, Chars(tokens)) /\ live' = live \cup {New}
  /\ ret' = New /\ pc' = "printed"
  /\ UNCHANGED oom
ReturnNull(failed) ==
  /\ ret' = 0 /\ oom' = (oom \/ failed) /\ pc' = "printed"
  /\ UNCHANGED <<heap, live>>

IsLeaf(i) == heap[i].type \in {"Scalar", "String"} \/ heap[i].child = 0
LeafText(i) ==
  CASE heap[i].type = "Scalar" -> <<heap[i].value>>
    [] heap[i].type = "String" -> heap[heap[i].valuestring].text
    [] heap[i].type = "Array" -> <<"[", "]">>
    [] heap[i].type = "Object" -> <<"{", "}">>

PrintNothing ==
  /\ pc = "print" /\ cur = 0
  /\ ReturnNull(FALSE)
  /\ UNCHANGED <<text, at, root, cur, stack>>

PrintLeaf ==
  /\ pc = "print" /\ cur # 0 /\ IsLeaf(cur)
  /\ ReturnNew(LeafText(cur)) \/ ReturnNull(TRUE)
  /\ UNCHANGED <<text, at, root, cur, stack>>

\* print_array needs one block of pointers, print_object two; the first is
\* freed again when there is no second.
PrintContainer ==
  /\ pc = "print"
  /\ cur # 0 /\ ~IsLeaf(cur)
  /\ \/ LET n == IF heap[cur].type = "Array" THEN 1 ELSE 2 IN
          /\ heap' = heap \o [k \in 1 .. n |-> Pointers]
          /\ live' = live \cup (New .. New + n - 1)
          /\ stack' = Append(stack, [type |-> heap[cur].type, child |-> heap[cur].child, item |-> cur,
                                     arrays |-> New .. New + n - 1,
                                     names |-> <<>>, entries |-> <<>>, fail |-> FALSE])
          /\ cur' = heap[cur].child
          /\ pc' = IF n = 1 THEN "print" ELSE "printName"
          /\ UNCHANGED <<ret, oom>>
     \/ ReturnNull(TRUE) /\ UNCHANGED <<cur, stack>>
  /\ UNCHANGED <<text, at, root>>

\* print_object goes on to the member's value even without its name.
PrintName ==
  /\ pc = "printName"
  /\ \/ /\ heap' = Append(heap, Chars(heap[heap[cur].string].text))
        /\ live' = live \cup {New}
        /\ stack' = SetTop([Top EXCEPT !.names = Append(@, New)])
        /\ UNCHANGED oom
     \/ /\ stack' = SetTop([Top EXCEPT !.names = Append(@, 0), !.fail = TRUE])
        /\ oom' = TRUE
        /\ UNCHANGED <<heap, live>>
  /\ pc' = "print"
  /\ UNCHANGED <<text, at, root, cur, ret>>

\* The rendering of a child is stored.  print_array stops at one that failed.
PrintNext ==
  /\ pc = "printed" /\ stack # <<>>
  /\ LET failed == Top.fail \/ ret = 0
         after == heap[Top.child].next
         goOn == after # 0 /\ (Top.type = "Array" => ~failed)
     IN  /\ stack' = SetTop([Top EXCEPT !.entries = Append(@, ret), !.fail = failed,
                                        !.child = IF goOn THEN after ELSE @])
         /\ cur' = IF goOn THEN after ELSE cur
         /\ pc' = IF ~goOn THEN "compose"
                  ELSE IF Top.type = "Array" THEN "print" ELSE "printName"
  /\ ret' = 0
  /\ UNCHANGED <<text, at, heap, live, root, oom>>

\* A child's rendering, after its name if it has one.
Member(f, k) ==
  (IF f.type = "Array" THEN <<>> ELSE heap[f.names[k]].text \o <<":">>) \o heap[f.entries[k]].text
\* Mutant: the comma is left out behind the first child, not the last.
ComposedCommaLast(f) ==
  LET upto[k \in 1 .. Len(f.entries)] ==
        IF k = 1 THEN Member(f, 1) ELSE upto[k - 1] \o Member(f, k) \o <<",">>
  IN  <<Opened(f.type)>> \o upto[Len(f.entries)] \o <<Closing(f.type)>>
\* All of them, joined by commas.
Composed(f) ==
  LET upto[k \in 1 .. Len(f.entries)] ==
        IF k = 1 THEN Member(f, 1) ELSE upto[k - 1] \o <<",">> \o Member(f, k)
  IN  <<Opened(f.type)>> \o upto[Len(f.entries)] \o <<Closing(f.type)>>

Listed(seq) == {seq[k] : k \in 1 .. Len(seq)} \ {0}
\* What print_array and print_object free on both ways out.
Scratch(f) == f.arrays \cup Listed(f.entries) \cup Listed(f.names)

PrintEnds ==
  /\ pc = "compose"
  /\ \/ /\ ~Top.fail
        /\ heap' = Append(heap, Chars(Composed(Top)))
        /\ live' = (live \ Scratch(Top)) \cup {New}
        /\ ret' = New
        /\ UNCHANGED oom
     \/ /\ live' = live \ Scratch(Top)
        /\ ret' = 0
        /\ oom' = TRUE
        /\ UNCHANGED heap
  /\ cur' = Top.item
  /\ stack' = Pop
  /\ pc' = "printed"
  /\ UNCHANGED <<text, at, root>>

\* The caller has used the rendering: it is freed and the tree deleted.
Release ==
  /\ pc = "printed" /\ stack = <<>>
  /\ live' = live \ (Blocks(root) \cup {ret})
  /\ root' = 0 /\ ret' = 0 /\ pc' = "released"
  /\ UNCHANGED <<text, at, heap, cur, stack, oom>>

Ended == pc \in {"null", "released", "undefined"} /\ UNCHANGED vars

Next ==
  \/ Parse \/ ParseScalar \/ ParseString \/ ParseEmpty \/ ParseContainer
  \/ ParseName \/ ParseColon \/ NextChild \/ EndContainer \/ Parsed
  \/ ParseNoMemory \/ Malformed \/ ScanPastEnd
  \/ PrintItem \/ PrintNothing \/ PrintLeaf \/ PrintContainer \/ PrintName \/ PrintNext
  \/ PrintEnds \/ Release \/ Ended

Spec == Init /\ [][Next]_vars

-----------------------------------------------------------------------------
(* What the callers rely on.                                               *)

\* The pointers to block b: fields of live items, the root, what the print
\* calls under way hold and a text that has just been returned.
Links == {"child", "next", "string", "valuestring"}
At(seq, b) == {k \in 1 .. Len(seq) : seq[k] = b}
Held(f, m, b) ==   \* by the m-th frame, f
  {<<m, "arrays", k>> : k \in f.arrays \cap {b}}
  \cup {<<m, "names", k>> : k \in At(f.names, b)}
  \cup {<<m, "entries", k>> : k \in At(f.entries, b)}
Owners(b) ==
  {l \in {i \in live : IsItem(i)} \X Links : heap[l[1]][l[2]] = b}
  \cup (UNION {Held(stack[m], m, b) : m \in {n \in 1 .. Len(stack) : "arrays" \in DOMAIN stack[n]}})
  \cup (IF root = b THEN {<<0, "root">>} ELSE {})
  \cup (IF ret = b THEN {<<0, "ret">>} ELSE {})

\* At every step, whichever malloc fails and wherever a text breaks off,
\* every block that is not freed has exactly one owner, and every pointer
\* that is not NULL leads to such a block: nothing leaks, nothing is freed
\* twice, and a call that returns NULL leaves nothing behind.
OneOwner ==
  /\ \A b \in live : Cardinality(Owners(b)) = 1
  /\ \A b \in 1 .. Len(heap) : Owners(b) # {} => b \in live

\* Reference: the phrases of n tokens by the grammar of JSON: documents, what
\* stands between the brackets of an array, a member, and what stands between
\* the braces of an object; g has the phrases of fewer tokens.
Joined(heads, tails) == {p[1] \o <<",">> \o p[2] : p \in heads \X tails}
Enclosed(p) == {<<"[">> \o e \o <<"]">> : e \in p.elems} \cup {<<"{">> \o m \o <<"}">> : m \in p.members}
Plain == {<<v>> : v \in Scalars \cup Strings}
Empty == {<<"[", "]">>, <<"{", "}">>}
DocsOf(g, n) ==
  IF n = 0 THEN {} ELSE IF n = 1 THEN Plain ELSE IF n = 2 THEN Empty ELSE Enclosed(g[n - 2])
PairsOf(g, n) == IF n < 3 THEN {} ELSE {<<p[1], ":">> \o p[2] : p \in Strings \X g[n - 2].docs}
ElemsOf(g, n) == DocsOf(g, n) \cup UNION {Joined(g[k].docs, g[n - 1 - k].elems) : k \in 1 .. n - 2}
MembersOf(g, n) == PairsOf(g, n) \cup UNION {Joined(g[k].pairs, g[n - 1 - k].members) : k \in 1 .. n - 2}
Grammar ==
  LET g[n \in 0 .. MaxLen] == [docs |-> DocsOf(g, n), elems |-> ElemsOf(g, n),
                               pairs |-> PairsOf(g, n), members |-> MembersOf(g, n)]
  IN  g
Documents == UNION {Grammar[n].docs : n \in 0 .. MaxLen}

\* The value of an item, as the document it stands for: that of its list of
\* children in brackets.
Before(i) == IF heap[i].string = 0 THEN <<>> ELSE heap[heap[i].string].text \o <<":">>
Of(list, i) ==
  IF IsLeaf(i) THEN LeafText(i)
  ELSE <<Opened(heap[i].type)>> \o list[heap[i].child] \o <<Closing(heap[i].type)>>
Listing(list, i) ==   \* of item i and the siblings behind it
  IF ~IsItem(i) THEN <<>>
  ELSE Before(i) \o Of(list, i)
       \o (IF heap[i].next = 0 THEN <<>> ELSE <<",">> \o list[heap[i].next])
Value(item) == LET list[i \in 1 .. Len(heap)] == Listing(list, i) IN Of(list, item)

\* cJSON_Parse yields the tree of the document that the text starts with and
\* ignores the rest; it gives NULL only for a text that starts with none, or
\* for lack of memory.  The one text beyond JSON that is taken for a
\* document is a string without its closing quote.
ParsesDocument ==
  LET read == SubSeq(text, 1, at - 1) IN
  /\ pc = "parsed" =>
       \/ read \in Documents /\ Value(root) = read
       \/ read = <<"open">> /\ Value(root) = <<OpenText>>
  /\ pc = "null" /\ ~oom => \A k \in 1 .. Len(text) : SubSeq(text, 1, k) \notin Documents

\* cJSON_Print gives back a document of the same value, which parses to an
\* equal tree as getBuyerID supposes when it prints a member and parses it
\* again; NULL only for NULL or for lack of memory.
PrintsValue ==
  pc = "printed" /\ stack = <<>> =>
    IF ret = 0 THEN cur = 0 \/ oom
    ELSE heap[ret].text = Value(cur) /\ heap[ret].text \in Documents
=============================================================================

----------------------------- MODULE UsmartStr ------------------------------
(***************************************************************************)
(* What the console makes of a line: the parser of usmart_str.c, and       *)
(* usmart_cmd_rec and usmart_sys_cmd_exe of usmart.c, which use it.        *)
(*                                                                         *)
(* A text is a sequence of characters; a whole word, such as a name or a   *)
(* type, is one of them.  Not modelled: the lengths of names and texts,    *)
(* the escape in a string, and a string that the text does not end (the    *)
(* code reads on behind the text).                                         *)
(***************************************************************************)
EXTENDS Integers, SequencesExt

CONSTANTS
    Decls,       \* the declarations of usmart_nametab, as texts
    MaxParm,     \* MAX_PARM
    WordSize     \* 2^32, where numbers wrap

ASSUME UsmartAssumption == MaxParm \in Nat /\ WordSize \in Nat \ {0}

Quote == "\""
Refuse == [does |-> "refuse"]
Digit == <<"0", "1", "2", "3", "4", "5", "6", "7", "8", "9", "A", "B", "C", "D", "E", "F">>
Small == <<"a", "b", "c", "d", "e", "f", "x">>
Large == <<"A", "B", "C", "D", "E", "F", "X">>
Place(c, s) == CHOOSE i \in DOMAIN s : s[i] = c

\* The characters usmart_get_aparm takes for a number, and in capitals.
Numeric == Range(Digit) \cup Range(Small) \cup {"X", "+", "-"}
Capital(c) == IF c \in Range(Small) THEN Large[Place(c, Small)] ELSE c

\* What a loop over the characters of a text makes of its locals.
Loop(pass(_, _), start, str) ==
    LET after[n \in 0..Len(str)] ==
            IF n = 0 THEN start
            ELSE CHOOSE s \in {pass(before, str[n]) : before \in {after[n - 1]}} : TRUE
    IN  after[Len(str)]

-----------------------------------------------------------------------------
(* usmart_str2num.                                                         *)

\* Signs may be repeated; the last one counts.  A letter makes the number
\* hexadecimal, and 0X must then stand before at least one digit.
usmart_str2num(s) ==
    LET k    == SelectInSeq(s, LAMBDA c : c \notin {"+", "-"})
        body == IF k = 0 THEN <<>> ELSE SubSeq(s, k, Len(s))
        hex  == \E c \in Range(body) : c \notin {Digit[i] : i \in 1..10}
        base == IF hex THEN 16 ELSE 10
        sum  == Loop(LAMBDA n, c : (n * base + Place(c, Digit) - 1) % WordSize, 0,
                         IF hex THEN SubSeq(body, 3, Len(body)) ELSE body)
    IN  CASE \E i \in DOMAIN body : body[i] \in {"+", "-"} \/ (body[i] = "X" /\ i # 2) -> [err |-> 1]
          [] OTHER ->
        CASE hex /\ Len(body) < 3 -> [err |-> 2]
          [] hex /\ Len(body) >= 3 /\ SubSeq(body, 1, 2) # <<"0", "X">> -> [err |-> 3]
          [] body = <<>> -> [err |-> 4]
          [] OTHER -> [err |-> 0, n |-> IF k > 1 /\ s[k - 1] = "-" THEN (WordSize - sum) % WordSize ELSE sum]

-----------------------------------------------------------------------------
(* usmart_get_fname.                                                       *)

\* The name begins behind the last blank or star before the first parenthesis
\* that is not itself followed by a star or the parenthesis.
NameStart(str) ==
    LET open == SelectInSeq(str, LAMBDA c : c = "(")
        usmart_search_nextc(i) == SelectInSubSeq(str, i + 1, Len(str), LAMBDA c : c # " ")
        ends == {i \in 2..open : str[i] \in {" ", "*"} /\ str[usmart_search_nextc(i)] \notin {"(", "*"}}
    IN  IF ends = {} THEN 1 ELSE Max(ends) + 1

\* A character of the name or of the parameters.  A parameter is counted at
\* its first character that is neither blank nor parenthesis; a comma starts
\* the next one, inside a string too.
Scan(s, c) ==
    LET depth == CASE s.string -> s.depth
                   [] ~s.string /\ c = "(" -> s.depth + 1
                   [] ~s.string /\ c = ")" /\ s.depth > 0 -> s.depth - 1
                   [] OTHER -> s.depth
        over  == ~s.string /\ c = ")" /\ depth = 0
        string == s.string # (c = Quote)
        solid == c \notin {" ", "(", ","}
        new   == solid /\ s.fresh /\ depth = 1
    IN  CASE s.over -> s
          [] ~s.over /\ over -> [s EXCEPT !.over = TRUE, !.err = (s.depth = 0)]
          [] ~s.over /\ ~over /\ depth = 0 ->
                [s EXCEPT !.string = string, !.name = IF c = " " THEN @ ELSE Append(@, c)]
          [] OTHER ->
                [s EXCEPT !.string = string, !.depth = depth,
                          !.pnum   = IF new THEN @ + 1 ELSE @,
                          !.fresh  = (c = ",") \/ (@ /\ ~solid),
                          !.commas = @ \/ (c = ","),
                          !.first  = IF solid /\ ~s.commas THEN Append(@, c) ELSE @]

\* The name and the number of parameters.
usmart_get_fname(str) ==
    LET s == Loop(Scan, [name |-> <<>>, depth |-> 0, string |-> FALSE, fresh |-> TRUE, commas |-> FALSE,
                             first |-> <<>>, pnum |-> 0, over |-> FALSE, err |-> FALSE],
                      SubSeq(str, NameStart(str), Len(str)))
    IN  [err  |-> s.err \/ ~s.over,
         name |-> s.name,
         pnum |-> IF s.pnum = 1 /\ s.first = <<"void">> THEN 0 ELSE s.pnum]

-----------------------------------------------------------------------------
(* usmart_get_aparm and usmart_get_fparam.                                 *)

NoParm == [type |-> "num", text |-> <<>>, string |-> FALSE, comma |-> FALSE]

\* One character of a parameter.  Blanks in a number are skipped, and so is what
\* stands behind the end of a string.
Read(p, c) ==
    LET string == p.string /\ c # Quote
        q == [p EXCEPT !.comma = @ \/ (c = "," /\ ~p.string)]
    IN  IF p.type = "str"
        THEN [q EXCEPT !.string = string, !.text = IF string THEN Append(@, c) ELSE @]
        ELSE CASE c \in Numeric -> [q EXCEPT !.text = Append(@, Capital(c))]
               [] c = Quote -> [q EXCEPT !.type = "str", !.string = TRUE]
               [] c \in {" ", ","} -> q
               [] OTHER -> [q EXCEPT !.type = "bad"]

\* Seeded fault: a string does not begin the next parameter.
EndsAtNumber(p, c) ==
    /\ p.comma \/ (c = "," /\ ~p.string)
    /\ p.type = "str" \/ c \in Numeric

\* A call of usmart_get_aparm ends at a parenthesis, at what is wrong, or after
\* a comma where the next parameter begins; for a string that is the comma.
Ends(p, c) ==
    /\ p.comma \/ (c = "," /\ ~p.string)
    /\ p.type = "str" \/ c \in Numeric \cup {Quote}

\* Each character goes to the call at work or begins the next one.
Take(s, c) ==
    LET p == s[Len(s)]
    IN  CASE p.type = "over" \/ p.type = "bad" -> s
          [] p.type \in {"num", "str"} /\ c = ")" /\ ~p.string -> Append(s, [NoParm EXCEPT !.type = "over"])
          [] OTHER -> IF Ends(p, c) THEN Append(s, Read(NoParm, c)) ELSE [s EXCEPT ![Len(s)] = Read(p, c)]

\* What the calls of usmart_get_aparm find in a text.
Parms(str) == SelectSeq(Loop(Take, <<NoParm>>, str), LAMBDA p : p.type # "over")

Valued(p) == IF p.type = "str" THEN <<"str", p.text>> ELSE <<"num", usmart_str2num(p.text).n>>

(* plentbl, and parmtype and parm as one function from offsets to what the *)
(* line at hand has stored there; anything else is left from lines before. *)

\* The tables when a line begins.
NoTable == [n |-> 0, plentbl |-> [i \in 0..MaxParm-1 |-> 0], parm |-> [o \in {} |-> Refuse]]

usmart_get_parmpos(table, num) == MapThenSumSet(LAMBDA i : table.plentbl[i], 0..num-1)

\* A parameter is stored and then its length.  One too many is stored too, and its
\* length goes to parm[0], which lies behind plentbl.
Enter(table, p) ==
    LET pos  == usmart_get_parmpos(table, table.n)
        len  == IF p.type = "str" THEN Len(p.text) + 1 ELSE 4
        parm == [o \in DOMAIN table.parm \cup {pos} |-> IF o = pos THEN Valued(p) ELSE table.parm[o]]
    IN  IF table.n < MaxParm
        THEN [n |-> table.n + 1, plentbl |-> [table.plentbl EXCEPT ![table.n] = len], parm |-> parm]
        ELSE [table EXCEPT !.n = @ + 1, !.parm = Restrict(parm, DOMAIN parm \ {0})]

\* What is read at an offset.
At(table, pos) == IF pos \in DOMAIN table.parm THEN table.parm[pos] ELSE <<"left">>

\* usmart_get_fparam: an empty call of usmart_get_aparm counts for nothing.
usmart_get_fparam(str) ==
    LET open == SelectInSeq(str, LAMBDA c : c = "(")
        all  == Parms(SubSeq(str, open + 1, Len(str)))
        some == SelectSeq(all, LAMBDA p : p.type = "str" \/ p.text # <<>>)
        bad(p) == p.type = "bad" \/ (p.type = "num" /\ p.text # <<>> /\ usmart_str2num(p.text).err # 0)
        table == Loop(Enter, NoTable, SubSeq(some, 1, Min({MaxParm + 1, Len(some)})))
    IN  IF (\E p \in Range(all) : bad(p)) \/ table.n > MaxParm
        THEN [err |-> TRUE]
        ELSE [err |-> FALSE, table |-> table]

-----------------------------------------------------------------------------
(* usmart_scan.                                                            *)

\* usmart_exe reads the parameters the function declares and passes as many as
\* the line has.  What is passed beyond the declared is whatever the stack holds.
usmart_exe(local, table) ==
    [does |-> "call", fun |-> local.name,
     parm |-> [i \in 1..Min({local.pnum, table.n}) |-> At(table, usmart_get_parmpos(table, i - 1))]]

\* The first function of that name, or 0.
Named(local, name) == SelectInSeq(local, LAMBDA d : d.name = name)

\* usmart_cmd_rec: the first function of that name, unless it declares more
\* parameters than the line has.
usmart_cmd_rec(str) ==
    LET f     == usmart_get_fname(str)
        local == [i \in DOMAIN Decls |-> usmart_get_fname(Decls[i])]
        id    == Named(local, f.name)
        p     == usmart_get_fparam(str)
    IN  IF f.err \/ id = 0 \/ local[id].pnum > f.pnum \/ p.err
        THEN Refuse
        ELSE usmart_exe(local[id], p.table)

\* The first blank, or 0.
Blank(str) == SelectInSeq(str, LAMBDA c : c = " ")

\* usmart_sys_cmd_exe: the text up to a blank is the command, its first
\* parameter a number or nothing.
usmart_sys_cmd_exe(str) ==
    LET blank == Blank(str)
        cmd   == IF blank = 0 THEN str ELSE SubSeq(str, 1, blank - 1)
        p     == Parms(IF blank = 0 THEN <<>> ELSE SubSeq(str, blank, Len(str)))[1]
        num   == usmart_str2num(p.text)
    IN  CASE cmd \in {<<"?">>, <<"help">>, <<"list">>, <<"id">>} -> [does |-> "print"]
          [] cmd \in {<<"hex">>, <<"dec">>} /\ p.type = "num" /\ num.err = 0 -> [does |-> "show", n |-> num.n]
          [] cmd \in {<<"hex">>, <<"dec">>} /\ p.type = "num" /\ num.err = 4 -> [does |-> "type", type |-> cmd[1]]
          [] cmd = <<"runtime">> /\ p.type = "num" /\ num.err = 0 -> [does |-> "time", on |-> num.n % 256 # 0]
          [] OTHER -> Refuse

\* A line that is no call is tried as a system command.
Command(str) ==
    IF usmart_cmd_rec(str) # Refuse THEN usmart_cmd_rec(str) ELSE usmart_sys_cmd_exe(str)

=============================================================================

----------------------------- MODULE MCConsole ------------------------------
(* Three functions and two parameters; lines as a user writes them, those  *)
(* written plainly with what the user means, in a buffer of twelve bytes.  *)
EXTENDS Console

MCDecls == <<<<"void", " ", "foo", "(", "void", ")">>,
             <<"int", " ", "get", "(", "int", " ", "n", ",", "char", " ", "*", "p", ")">>,
             <<"void", " ", "*", "mem", "(", "int", " ", "n", ")">>>>
Declared == [foo |-> 0, get |-> 2, mem |-> 1]

\* Spellings of parameters, with their values.
Numbers == {<< <<"7">>, 7 >>, << <<"3", "0", "0">>, 300 % WordSize >>, << <<"-", "3">>, WordSize - 3 >>,
            << <<"0", "x", "1", "f">>, 31 >>, << <<" ", "2", " ">>, 2 >>}
Strings == {<< <<Quote>> \o s \o <<Quote>>, s >> : s \in {<<>>, <<"x", "y">>, <<")">>, <<"7">>}}
Written == {[text |-> n[1], val |-> <<"num", n[2]>>] : n \in Numbers}
           \cup {[text |-> s[1], val |-> <<"str", s[2]>>] : s \in Strings}
One == CHOOSE w \in Written : w.val = <<"num", 7>>
Str == CHOOSE w \in Written : w.val = <<"str", <<"x", "y">>>>

Join(ts) == FoldLeft(LAMBDA l, t : l \o (IF l = <<>> THEN <<>> ELSE <<",">>) \o t, <<>>, ts)

\* A call as written, and what is meant by it: parameters that the function does
\* not declare are not for it.
Call(f, ws) ==
    [text  |-> <<f, "(">> \o Join([i \in DOMAIN ws |-> ws[i].text]) \o <<")">>,
     means |-> IF f \in DOMAIN Declared /\ Len(ws) \in Declared[f]..MaxParm
               THEN [does |-> "call", fun |-> <<f>>, parm |-> [i \in 1..Declared[f] |-> ws[i].val]]
               ELSE Refuse]

Calls == {Call("foo", <<>>), Call("foo", <<One>>), Call("nop", <<One>>), Call("mem", <<>>),
          Call("mem", <<One, Str>>), Call("mem", <<One, One, One>>),
          Call("get", <<One>>), Call("get", <<Str, Str>>)}
         \cup {Call("mem", <<w>>) : w \in Written}
         \cup {Call("get", <<One, w>>) : w \in {w \in Written : w.val[1] = "str"}}
         \cup {Call("get", <<w, One>>) : w \in {w \in Written : w.val[1] = "num"}}
         \cup {Call("get", <<Str, One>>)}

System == {[text |-> <<"help">>, means |-> [does |-> "print"]],
           [text |-> <<"hex">>, means |-> [does |-> "type", type |-> "hex"]],
           [text |-> <<"dec">>, means |-> [does |-> "type", type |-> "dec"]],
           [text |-> <<"hex", " ", "1", "0">>, means |-> [does |-> "show", n |-> 10]],
           [text |-> <<"dec", " ", "0", "x", "1", "f">>, means |-> [does |-> "show", n |-> 31]],
           [text |-> <<"runtime", " ", "1">>, means |-> [does |-> "time", on |-> TRUE]],
           [text |-> <<"runtime", " ", "0">>, means |-> [does |-> "time", on |-> FALSE]],
           [text |-> <<"runtime">>, means |-> Refuse],
           [text |-> <<"hex", " ", "foo">>, means |-> Refuse],
           [text |-> <<>>, means |-> Refuse],
           \* too long for the buffer
           [text |-> <<"mem", "(">> \o [i \in 1..11 |-> "1"] \o <<")">>, means |-> Refuse]}

MCMeans == LET all == Calls \cup System
           IN  [t \in {l.text : l \in all} |-> (CHOOSE l \in all : l.text = t).means]

\* Not plain: a comma in a string, a blank in a number, a number behind a string.
Odd == {<<"get", "(", Quote, "x", ",", "y", Quote, ")">>, <<"mem", "(", "1", " ", "2", ")">>,
        <<"mem", "(", Quote, "x", Quote, "7", ")">>}

MCLines == DOMAIN MCMeans \cup Odd
MCQuick == {<<>>, <<"dec">>, <<"foo", "(", ")">>, <<"mem", "(", "1", ")">>}
MCChar == UNION {Range(l) : l \in MCLines \cup MCQuick}
=============================================================================

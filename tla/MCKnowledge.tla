----------------------------- MODULE MCKnowledge -----------------------------
(* Instances of Knowledge for TLC: every page of up to three elements with a *)
(* few questions, and one page with a question for every name of every       *)
(* module of every platform.                                                 *)
EXTENDS Knowledge, TLC

Para(words) == [tag |-> "p", text |-> words]

Twice == <<"flow designer", " ", "runs", ".", " ", "alpha", " ", "beta", ".">>

Elements ==
    {[tag |-> "h2", text |-> <<"acl">>],
     Para(Twice),
     Para(<<"apex class", " ", "runs", " ", "salesforce", " ", "alpha">>),
     Para(<<"next">>),
     Para(<<"w1", "w2", "w3", "w4", "w5", "w6", "w7", "w8", "w9">>),
     [tag |-> "li/p", text |-> <<"flow designer", " ", "beta", " ", "nan">>],
     [tag |-> "pre", text |-> <<"next", NL, "ldquo", "acl", ".", " ", "beta", ".", " ", "runs">>],
     [tag |-> "div", text |-> <<"flow designer", " ", "beta">>]}

Page(nodes) == [title |-> <<"guide">>, main |-> nodes, rest |-> <<>>, live |-> <<>>]

\* Code of more than two chunks, code with a fence, a footer, a small main element,
\* scripts.
Special ==
    {[title |-> <<"url">>, live |-> <<>>, rest |-> <<>>, main |->
        <<[tag |-> "h3", text |-> <<"acl">>],
          [tag |-> "pre", text |-> [i \in 1 .. 21 |-> IF i % 2 = 1 THEN "x" ELSE NL]]>>],
     [title |-> <<"guide">>, live |-> <<>>, rest |-> <<>>, main |->
        <<Para(<<"acl">>), [tag |-> "pre", text |-> <<"runs", Fence, "next", NL, "next">>]>>],
     [title |-> <<"acl">>, main |-> <<Para(<<"acl">>)>>, live |-> <<>>,
      rest |-> <<[tag |-> "footer", text |-> <<"next">>],
                 [tag |-> "p/code", text |-> <<"acl", " ", "runs", " ", "flow designer">>]>>],
     [title |-> <<"guide">>, main |-> <<>>, rest |-> <<>>, live |-> <<Para(Twice)>>],
     [title |-> <<"guide">>, main |-> <<>>, rest |-> <<>>, live |-> <<>>]}

Catalogued == Page(<<Para(<<"guide", " ", "alpha">>)>>)

MCPages == {Page(nodes) : nodes \in BoundedSeq(Elements, 3)} \cup Special \cup {Catalogued}

Question(words) ==
    [text |-> Spaced(words), history |-> <<>>, requested |-> <<>>, topK |-> 0]

\* One question for each name of each module of each platform.
EveryName ==
    UNION {{Question(<<"how", "configure", name, "in", pack.key>>) :
               name \in UNION {ToSet(d.names) : d \in ToSet(pack.domains)}} : pack \in ToSet(Packs)}

Few ==
    {[Question(<<"how", "runs", "flow designer">>) EXCEPT !.topK = 1],
     Question(<<"latest", "flow designer", "beta">>),
     Question(<<"migrate", "alpha">>),
     Question(<<"how", "next", "acl">>),
     Question(<<"how", "beta", "acl">>),
     Question(<<"compare", "acl", "vs", "flow designer">>),
     Question(<<"runs", "apex class", "in", "salesforce">>),
     [Question(<<"publish", "runs", "alpha">>) EXCEPT !.history = <<"salesforce">>],
     [Question(<<"roi", "beta">>) EXCEPT !.requested = <<"flow_designer">>]}

MCAsked(page_) == IF page_ = Catalogued THEN EveryName ELSE Few

\* Words of a shingle set the bits of their places; a table in place of BLAKE2.
MCHashFeature(words) ==
    LET bits(w) == CASE w \in {"flow designer", "w1", "acl"} -> {1, 2, 5}
                     [] w \in {"runs", "w4", "x"}           -> {2, 3}
                     [] w \in {"alpha", "w7", "salesforce"} -> {4, 6}
                     [] w \in {"beta", "apex class", "w2"}  -> {1, 6, 3}
                     [] OTHER                               -> {5}
        odd(bit) == Cardinality({i \in DOMAIN words : bit \in bits(words[i])}) % 2 = 1
    IN  {bit \in 1 .. HashBits : odd(bit)}

MCChromeLines == {<<"next">>}

=============================================================================

------------------------------- MODULE MCDesk -------------------------------
EXTENDS Desk, TLC

CONSTANTS t1, t2

Twins == Permutations(Threads)

\* Two documents of words 1 and 2, the first of any reading and one break.
MCDocs == {<<[url |-> TRUE, words |-> w, breaks |-> b],
            [url |-> FALSE, words |-> <<1, 1, 2, 2>>, breaks |-> {}],
            [url |-> TRUE, words |-> <<2, 1, 2, 1>>, breaks |-> {2}]>> :
             w \in [1 .. 5 -> {1, 2}], b \in {{}} \cup {{p} : p \in 1 .. 4}}
MCParts == {<<1, 2>>}   \* word 2 begins with word 1
MCQuotes == {<<<<>>, q, <<2, x>>>> : q \in UNION {[1 .. n -> {1, 2}] : n \in 3 .. 4}, x \in {1, 2}}

MCChain == <<"openai/gpt-oss-120b", "other">>
MCFilings == {[items |-> <<[number |-> "5.02", chars |-> 1]>>,
               exhibits |-> <<[release |-> TRUE, chars |-> 4], [release |-> FALSE, chars |-> 9]>>]}
MCReplies == {[insufficient |-> TRUE, ours |-> TRUE, primary |-> "", types |-> NoLabels],
              [insufficient |-> FALSE, ours |-> TRUE, primary |-> "Earnings", types |-> <<"x">>],
              [insufficient |-> FALSE, ours |-> FALSE, primary |-> "Earnings", types |-> NoLabels]}

MCCompanies == <<[cik |-> 1, name |-> <<"acme">>, symbols |-> <<"A", "Z">>],
                 [cik |-> 2, name |-> <<"zenith", "bio">>, symbols |-> <<"Z", "A">>]>>
Plain(chars, tickers, names, story) ==
  [letters |-> 9, nonLatin |-> 0, words |-> 9, english |-> 3, foreign |-> 0, firm |-> FALSE,
   chars |-> chars, tickers |-> tickers, line |-> <<>>, names |-> names, story |-> story]
Page(x, credit) == [dateline |-> TRUE, heading |-> FALSE, credit |-> credit, text |-> x]
Release(head, teaser, page) ==
  [tag |-> "", head |-> head, chars |-> 1, teaser |-> teaser, cut |-> TRUE, page |-> page,
   meta |-> <<"A">>, issuer |-> <<>>, host |-> "w"]

\* A cut teaser that names no one, one its page credits to a law firm, a whole
\* text with a dateline, and a teaser that repeats an event.
MCReleases ==
  {Release(1, Plain(3, <<>>, {}, 1), Page(Plain(9, <<"Z">>, {<<"acme">>}, 1), <<>>)),
   Release(2, Plain(3, <<>>, {<<"acme">>}, 2),
           Page([Plain(9, <<>>, {<<"acme">>}, 2) EXCEPT !.firm = TRUE], <<"firm">>)),
   [Release(3, [Plain(9, <<"Z">>, {}, 3) EXCEPT !.line = <<"zenith">>], Page(NoText, <<>>))
      EXCEPT !.cut = FALSE, !.meta = <<>>],
   Release(4, Plain(3, <<>>, {<<"acme">>}, 4), Page(Plain(2, <<>>, {}, 4), <<"zenith">>))}
MCRemembered == {[ticker |-> "A", exact |-> <<9, 5>>, headline |-> 9, simhash |-> 5]}
MCClose == {<<5, 4>>}
=============================================================================

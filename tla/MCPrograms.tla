----------------------------- MODULE MCPrograms -----------------------------
(***************************************************************************)
(* A small instance of Programs: two requests, in pairs that share what a  *)
(* mistake would mix up.                                                   *)
(***************************************************************************)
EXTENDS Programs, TLC

CONSTANTS r1, r2

SmallUrls == {<<"u">>, <<"u", "fffd">>}
SmallSelectors == {<<"s">>, <<"s", "s">>, <<"t">>, <<"s", "t">>}

PlainText == [f \in Field |-> IF f = "URL" THEN <<"u">>
                              ELSE IF f \in Required THEN <<"s">> ELSE <<>>]

NoHeaders == [AcceptLanguage |-> <<>>, Cookie |-> <<>>]
With(cookie) == [NoHeaders EXCEPT !.Cookie = cookie]

PlainLink == [prefix |-> "1", format |-> "proto", text |-> PlainText,
              from |-> "InnerText", attr |-> <<>>, lifetime |-> TRUE]

Feed(link, headers) == [type |-> "extract", link |-> link, headers |-> headers]
Shot(url, headers)  == [type |-> "page_screenshot", url |-> url, headers |-> headers,
                        parses |-> TRUE]

Pair(a, b) == r1 :> a @@ r2 :> b
Plainly(link) == Feed(link, NoHeaders)
Written(text) == Plainly([PlainLink EXCEPT !.text = text @@ PlainText])

SmallAsks == <<
    \* a text that moves into the next field, and the date from elsewhere
    Pair(Written("SelectorPost" :> <<"s", "s">> @@ "SelectorTitle" :> <<"t">>),
         Plainly([PlainLink EXCEPT !.from = "Attribute",
                     !.text = ("SelectorTitle" :> <<"s", "t">>) @@ PlainText])),
    \* one field differs, and how the link is written
    Pair(Plainly([PlainLink EXCEPT !.prefix = "none", !.format = "json"]),
         Written("SelectorEnclosure" :> <<"t">>)),
    \* texts that are no UTF-8
    Pair(Shot(<<"u", "xff">>, NoHeaders), Shot(<<"u", "fffd">>, NoHeaders)),
    \* a feed and a screenshot, with the same cookies written in two ways
    Pair(Feed(PlainLink, With(<<"s", "=", "t">>)),
         Shot(<<"u">>, With(<<" ", "s", "=", "+", "t">>))),
    \* cookies that are not told apart
    Pair(Feed(PlainLink, With(<<"s", "%20", "t", "=", "u">>)),
         Feed(PlainLink, With(<<"s", "=", "t", "+", "u">>))),
    \* cookies that cannot be read, and a request that is refused
    Pair(Feed(PlainLink, With(<<"s", "=", "t", ";">>)),
         Written("SelectorEnclosure" :> <<>>)) >>

SmallCookies == << <<>>,
                   << << <<"s">>, <<"=", ";">> >>, << <<"t">>, <<"%", "+">> >> >>,
                   << << <<"s">>, <<" ", "u", " ">> >> >> >>

Service == {{"web", "worker"}, {"tool"}}
=============================================================================

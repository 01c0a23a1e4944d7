---------------------------- MODULE MCHtmlWriter ----------------------------
(* Two tags that close and one that does not, two attributes, tokens with    *)
(* and without line breaks, a stack of two tags; files of up to MaxItems     *)
(* tags and texts, and tags of up to MaxAttrs attributes.                    *)
EXTENDS HtmlWriter

CONSTANTS MaxItems, MaxAttrs

MCNames == {"div", "span", "br"}
MCAttrs == {"class", "flag"}
MCSymbols == {"x", LF}
MCTokens == {<<"x">>, <<"x", LF>>}
MCVoidTags == {"br"}

Small ==
  /\ Len(file) <= MaxItems
  /\ \A i \in DOMAIN stack : Len(stack[i].attrs) <= MaxAttrs
=============================================================================

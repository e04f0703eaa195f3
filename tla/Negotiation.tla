----------------------------- MODULE Negotiation -----------------------------
(***************************************************************************)
(* How the gateway picks the format of a response                          *)
(* (api/internal/server/negotiate.go).  A media type is <<type, subtype>>;  *)
(* an Accept header is a sequence of entries [media, q], media being NoType *)
(* when it does not parse, and q being absent (NoType) or a number.         *)
(***************************************************************************)
EXTENDS Orderings, SequencesExt, FiniteSetsExt

CONSTANTS
    NoType,      \* no media type, no format, no q
    Full         \* the q that stands for 1.0

mimeJSON == <<"application", "json">>
mimeXML == <<"application", "xml">>
mimeYAML == <<"application", "yaml">>
mimeCSV == <<"text", "csv">>
mimeNDJSON == <<"application", "x-ndjson">>
mimeHTML == <<"text", "html">>

offers == <<mimeJSON, mimeXML, mimeYAML>>
analyzeOffers == offers \o <<mimeCSV, mimeNDJSON>>

ASSUME NegotiationAssumption ==
    /\ Full \in Nat \ {0}
    /\ NoType \notin {mimeJSON, mimeXML, mimeYAML, mimeCSV, mimeNDJSON}

(* The spellings of each, letter case and blanks aside. *)
Spellings ==
    {  <<mimeJSON, {mimeJSON, <<"text", "json">>}>>,
       <<mimeXML, {mimeXML, <<"text", "xml">>}>>,
       <<mimeYAML, {mimeYAML, <<"text", "yaml">>, <<"application", "x-yaml">>,
                    <<"text", "x-yaml">>}>>,
       <<mimeCSV, {mimeCSV, <<"application", "csv">>}>>,
       <<mimeNDJSON, {mimeNDJSON, <<"application", "ndjson">>}>>  }

canonicalMedia(media) ==
    IF \E s \in Spellings : media \in s[2]
    THEN (CHOOSE s \in Spellings : media \in s[2])[1] ELSE NoType

(* The ranges of a header by their places in it.  Entries that do not parse *)
(* are ignored; wildcards and types we do not speak stay what they are; a q *)
(* that is not there counts in full.                                         *)
parseAccept(header) ==
    [i \in {i \in DOMAIN header : header[i].media # NoType} |->
       LET e == header[i] IN
         [media |-> IF canonicalMedia(e.media) = NoType THEN e.media
                    ELSE canonicalMedia(e.media),
          q |-> IF e.q = NoType THEN Full ELSE e.q]]

Specificity(range, media) ==
    CASE range = media                -> 2
      [] range = <<media[1], "*">>    -> 1
      [] range = <<"*", "*">>         -> 0
      [] OTHER                        -> -1

(* Seeded bug: the first range that matches decides. *)
qualityFirst(media, ranges) ==
    LET fits == {i \in DOMAIN ranges : Specificity(ranges[i].media, media) >= 0}
    IN  IF fits = {} THEN [q |-> 0, spec |-> -1]
        ELSE [q |-> ranges[Min(fits)].q, spec |-> Specificity(ranges[Min(fits)].media, media)]

(* The most specific range decides, the first of them when there are two.   *)
quality(media, ranges) ==
    LET spec == Max({Specificity(ranges[i].media, media) : i \in DOMAIN ranges} \cup {-1})
        best == {i \in DOMAIN ranges : Specificity(ranges[i].media, media) = spec}
    IN  [q |-> IF spec < 0 THEN 0 ELSE ranges[Min(best)].q, spec |-> spec]

(* NoType when nothing offered is acceptable.  Who ranks text/html itself   *)
(* at least as high as what we would pick is a browser and gets JSON.       *)
negotiate(header, offered) ==
    LET ranges == parseAccept(header)
        weight(i) == quality(offered[i], ranges).q
        bestQ == Max({weight(i) : i \in DOMAIN offered})
        html == quality(mimeHTML, ranges)
    IN  CASE DOMAIN ranges = {}                   -> offered[1]
          [] DOMAIN ranges # {} /\ bestQ <= 0     -> NoType
          [] DOMAIN ranges # {} /\ bestQ > 0      ->
               IF html.spec = 2 /\ html.q >= bestQ THEN mimeJSON
               ELSE offered[Min({i \in DOMAIN offered : weight(i) = bestQ})]

formatParams ==
    << <<"json", mimeJSON>>, <<"xml", mimeXML>>, <<"yaml", mimeYAML>>,
       <<"yml", mimeYAML>>, <<"csv", mimeCSV>>, <<"ndjson", mimeNDJSON>> >>

formatParam(name, offered) ==
    LET named == {p \in Range(formatParams) : p[1] = name /\ p[2] \in Range(offered)}
    IN  IF named = {} THEN NoType ELSE (CHOOSE p \in named : TRUE)[2]

(* The middleware: ?format= (NoType without one) goes before Accept.        *)
negotiateMedia(format, header, offered) ==
    LET chosen == IF format # NoType THEN formatParam(format, offered)
                  ELSE negotiate(header, offered)
    IN  CASE chosen # NoType                      -> [status |-> 200, format |-> chosen]
          [] chosen = NoType /\ format # NoType   -> [status |-> 400, format |-> mimeJSON]
          [] chosen = NoType /\ format = NoType   -> [status |-> 406, format |-> mimeJSON]

(* The names a 400 tells the caller to use, in the order of the offers.     *)
formatParamList(offered) ==
    [i \in DOMAIN offered |->
       formatParams[Min({k \in DOMAIN formatParams : formatParams[k][2] = offered[i]})][1]]
=============================================================================

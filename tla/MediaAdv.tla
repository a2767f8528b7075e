------------------------------ MODULE MediaAdv ------------------------------
(***************************************************************************)
(* la_media_adv_parse (media-adv.c): a Media Advisory message has a fixed  *)
(* format, checked character by character; a character is its code.        *)
(***************************************************************************)
EXTENDS AppText

\* link_type_map, which the formatter looks descriptions up in, and the
\* string that is_valid_link looks in: the codes of "VSHGC2XI".
LinkTypes == {86, 83, 72, 71, 67, 50, 88, 73}

Zero0 == 48

IsDigit(code) == code \in Zero0 .. Zero0 + 9

TwoDigits(txt, i) == 10 * (txt[i].value - Zero0) + txt[i + 1].value - Zero0

MediaResult(err, link, links, time, more) ==
    [err |-> err, current_link |-> link, available_links |-> links, time |-> time, text |-> more]

MediaError == MediaResult(TRUE, 0, <<>>, <<>>, <<>>)

\* Mutant: a link to be had is not asked for.
HeaderThere(txt) == Width(txt) >= 9

LongEnoughForLink(txt) == Width(txt) >= 10

\* Version 0, established ('E') or lost ('L'), the link, and the time.
HeaderValid(txt) ==
    /\ LongEnoughForLink(txt)
    /\ txt[1].value = Zero0
    /\ txt[2].value \in {69, 76}
    /\ txt[3].value \in LinkTypes
    /\ \A i \in 4 .. 9 : IsDigit(txt[i].value)
    /\ TwoDigits(txt, 4) <= 23
    /\ TwoDigits(txt, 6) <= 59
    /\ TwoDigits(txt, 8) <= 59

\* The available links are what there is up to a '/'.
MediaAdvParse(txt) ==
    IF ~HeaderValid(txt) THEN MediaError
    ELSE LET rest == SubSeq(txt, 10, Len(txt))
             links == Run(rest, "code")
             values == [i \in DOMAIN links |-> links[i].value]
         IN  IF \E i \in DOMAIN links : values[i] \notin LinkTypes THEN MediaError
             ELSE MediaResult(FALSE, txt[3].value, values,
                              <<TwoDigits(txt, 4), TwoDigits(txt, 6), TwoDigits(txt, 8)>>,
                              SubSeq(rest, Len(links) + 2, Len(rest)))
=============================================================================

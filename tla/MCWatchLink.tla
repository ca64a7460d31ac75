------------------------------ MODULE MCWatchLink ------------------------------
(* WatchLink with CRLF line ends and a payload that holds a colon, a space  *)
(* and a character of two bytes.                                            *)
EXTENDS WatchLink

MCLineEnd == <<CR, LF>>
MCPayload == <<"{", Colon, Space, Lead, Trail>>
MCFragment ==
  {LF, CR, Lead, Trail, Colon, Space, "event", "id", "data", "{", "{}", "7", "8"} \cup Kind
MCId == << <<"7">>, <<"8">> >>
==============================================================================

--------------------------- MODULE MCMediaBrowser ---------------------------
(* Two names of directories, one of them the name of a directory above.     *)
EXTENDS MediaBrowser
UmsDir == <<"userdata", "ums">>
AllNames == {"ums", "photos"}
=============================================================================

---------------------------- MODULE MCProduction ----------------------------
(* One platform reached by a command, and one by the browser or, with a video, by a
   command. *)
EXTENDS Production

MCPlatforms == {"wechat", "douyin"}
MCBrowser == {"douyin"}

=============================================================================

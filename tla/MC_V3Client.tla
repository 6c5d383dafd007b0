---------------------------- MODULE MC_V3Client ----------------------------
(* Two stations, the first with one selector; slink-tool run with or      *)
(* without -b, in real-time or dial-up mode, with no -i or -i stations,  *)
(* against servers of several HELLO banners.                              *)
EXTENDS V3Client

MCConfigs == <<1, 0>>
MCDescriptions == {<<"D">>}
\* SeedLink v3.1, seedlink v4.0, SeedLink v31., XeedLink v3.1, SeedLink v3.
MCBannerV3 == <<"S", "L", " ", "v", "3", ".", "1">>
MCBannersV3Only == {MCBannerV3}
MCBanners ==
    {MCBannerV3, <<"s", "l", " ", "v", "4", ".", "0">>, <<"S", "L", " ", "v", "3", "1", ".">>,
     <<"X", "L", " ", "v", "3", ".", "1">>, <<"S", "L", " ", "v", "3">>}
====

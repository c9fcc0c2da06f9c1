----------------------------- MODULE FileSelection -----------------------------
(***************************************************************************)
(* Which file of a torrent is played: scoreAndSelectFile of                *)
(* src/debrid/fileSelection.ts, over file lists that grow one by one.  A   *)
(* name is its extension, whether it says "sample" or the like, and what   *)
(* parseEpisodeInfo reads in it; sizes are in megabytes.                   *)
(***************************************************************************)
EXTENDS Integers, FiniteSets, Sequences

CONSTANTS
    VideoScore,   \* score of each known video extension
    Sizes,        \* sizes a file may have
    Tags,         \* episode tags, or NoTag
    Wishes,       \* the episode asked for, or NoWish
    NoTag, NoWish,
    MaxFiles      \* bound: files of a torrent

Extensions == DOMAIN VideoScore \cup {"srt", "unknown"}
ASSUME FilesAssumption ==
    VideoScore \in [DOMAIN VideoScore -> 5..50] /\ Sizes \subseteq Nat /\ MaxFiles \in Nat

FileNames == [ext : Extensions, sample : BOOLEAN, size : Sizes, tag : Tags]

VARIABLES files, wish, fileIdx     \* the list; opts.season/episode; opts.fileIdx or 0

fileVars == <<files, wish, fileIdx>>

FilesInit == files = <<>> /\ wish \in Wishes /\ fileIdx \in 0..1

AddFile ==
    /\ Len(files) < MaxFiles
    /\ \E f \in FileNames : files' = Append(files, f)
    /\ UNCHANGED <<wish, fileIdx>>

FilesSpec == FilesInit /\ [][AddFile]_fileVars
----------------------------------------------------------------------------
IsVideo(f) == f.ext \in DOMAIN VideoScore

(* parseEpisodeInfo: an absolute number is of season 1, and only a range   *)
(* has an end.                                                             *)
InRange(tag, w) == tag.kind = "range" /\ tag.season = w.season
                     /\ tag.episode <= w.episode /\ w.episode <= tag.last

(* BUG: the season of a range is not compared.                             *)
EpisodeScoreLoose(tag, w) ==
    CASE w = NoWish -> 0
      [] w # NoWish /\ tag = NoTag -> -100
      [] OTHER -> IF tag.season = w.season /\ tag.episode = w.episode THEN 2000
                  ELSE IF tag.kind = "range" /\ tag.episode <= w.episode /\ w.episode <= tag.last THEN 1800
                  ELSE -4000

EpisodeScore(tag, w) ==
    CASE w = NoWish -> 0
      [] w # NoWish /\ tag = NoTag -> -100
      [] OTHER -> IF tag.season = w.season /\ tag.episode = w.episode THEN 2000
                  ELSE IF InRange(tag, w) THEN 1800
                  ELSE IF tag.kind = "absolute" /\ w.season = 0 /\ tag.episode = w.episode THEN 1500
                  ELSE -4000

MaxSize == CHOOSE m \in {files[i].size : i \in DOMAIN files} \cup {1} :
              \A i \in DOMAIN files : m >= files[i].size /\ m >= 1

(* Math.round(50 * size / maxSize)                                         *)
SizeScore(f) == (100 * f.size + MaxSize) \div (2 * MaxSize)

Score(f) ==
    (IF IsVideo(f) THEN VideoScore[f.ext] ELSE IF f.ext = "unknown" THEN -500 ELSE -10000)
    + (IF f.sample THEN -5000 ELSE 0)
    + SizeScore(f)
    + (IF f.size > 0 /\ f.size < 30 THEN -300 ELSE 0)
    + EpisodeScore(f.tag, wish)

(* The first of the highest score: the sort is stable.                     *)
Winner == CHOOSE i \in DOMAIN files : \A j \in DOMAIN files :
             Score(files[i]) > Score(files[j]) \/ (Score(files[i]) = Score(files[j]) /\ i <= j)

(* The index picked, from 1, or 0 for -1.                                  *)
Picked ==
    IF files = <<>> THEN 0
    ELSE LET i == IF fileIdx \in DOMAIN files THEN fileIdx ELSE Winner
         IN  IF IsVideo(files[i]) THEN i ELSE 0
----------------------------------------------------------------------------
FilesTypeOK == \A i \in DOMAIN files : files[i] \in FileNames

(* What the request is about: the wanted episode, alone or in a range.     *)
Covers(f) ==
    wish = NoWish \/ /\ f.tag # NoTag
                     /\ \/ f.tag.season = wish.season /\ f.tag.episode = wish.episode
                        \/ InRange(f.tag, wish)
                        \/ f.tag.kind = "absolute" /\ wish.season = 0 /\ f.tag.episode = wish.episode
Proper(f) == IsVideo(f) /\ ~f.sample /\ Covers(f)

(* However the scores of extension, size and penalties add up: a proper    *)
(* video of the wanted episode is never passed over for another episode, a *)
(* sample or an untagged file, nor one of full size for a tiny one that is *)
(* no better match; and nothing but a video is picked.                     *)
PickSound ==
    LET known == {i \in DOMAIN files : files[i].ext # "unknown"}
        proper == {i \in known : Proper(files[i])}
    IN  /\ Picked # 0 => IsVideo(files[Picked])
        /\ (fileIdx \notin DOMAIN files /\ proper # {} /\ known = DOMAIN files) =>
              /\ Picked \in proper
              /\ \A i \in proper :
                    files[i].size >= 30 /\ EpisodeScore(files[i].tag, wish) >= EpisodeScore(files[Picked].tag, wish)
                       => files[Picked].size >= 30 \/ files[Picked].size = 0

(* 'no_video_files_found' is answered when there is none.                  *)
NoVideoMeansNone ==
    Picked = 0 /\ files # <<>> /\ fileIdx \notin DOMAIN files =>
        \A i \in DOMAIN files : ~IsVideo(files[i])
=============================================================================

----------------------------- MODULE RaImageCache -----------------------------
(***************************************************************************)
(* RetroAchievementsImageCache (realtime/retroachievements_image_cache.cpp)*)
(* on the image channel of the transport, both used by the UI thread.  A   *)
(* URL is an https one; an image is a PNG or JPEG file named after its URL,*)
(* and it lies on the disk or does not.                                    *)
(***************************************************************************)
EXTENDS RaHttp

CONSTANTS Urls, MaxImageRequests   \* bound: requests made

VARIABLES images,   \* the cache: State and stopping_
          web       \* the transport

imageVars == <<images, web>>

NewCache ==
    [inflight |-> {}, failed |-> {}, probed |-> {}, local |-> {},
     urlOf    |-> {},      \* urlByRequestId: [id, url]
     stopping |-> FALSE,
     next     |-> 1,       \* nextImageRequestId
     disk     |-> {}]      \* the URLs whose file is there

(* localPath: a URL is looked up on the disk once.                         *)
Probed(cache, url) ==
    IF url \in cache.local \/ url \in cache.probed THEN cache
    ELSE [cache EXCEPT !.probed = @ \cup {url}, !.local = @ \cup ({url} \cap cache.disk)]

(* RetroAchievementsImageCache::request.  Mutant: a URL that the transport *)
(* refused stays in flight.                                                *)
RefusedInFlight(cache, url) == [cache EXCEPT !.inflight = @ \cup {url}, !.next = @ + 1]
Refused(cache, url) == [cache EXCEPT !.next = @ + 1]

AsksFor(url) ==
    /\ ~images.stopping
    /\ url \notin images.inflight \cup images.failed

RequestImage(url) ==
    /\ images.next <= MaxImageRequests
    /\ AsksFor(url)
    /\ LET probed == Probed(images, url)
       IN  CASE url \in probed.local -> images' = probed /\ UNCHANGED web
             [] url \notin probed.local /\ Room(web, "image") > 0 ->
                  /\ images' = [probed EXCEPT !.inflight = @ \cup {url}, !.next = @ + 1,
                                              !.urlOf = @ \cup {[id |-> probed.next, url |-> url]}]
                  /\ web' = Submitted(web, "image", <<images.next>>)
             [] OTHER -> images' = Refused(probed, url) /\ UNCHANGED web

(* processCompleted: an image that came is written, or cannot be.          *)
AllStored(cache, answers, written) ==
    LET answered == {e \in cache.urlOf : e.id \in IdsOf(answers)}
        saved    == {e.url : e \in {e \in answered : e.id \in written}}
        ended    == {e.url : e \in answered}
    IN  [cache EXCEPT !.urlOf = @ \ answered, !.inflight = @ \ ended,
                      !.local = @ \cup saved, !.disk = @ \cup saved,
                      !.failed = @ \cup (ended \ saved)]

ProcessImages ==
    /\ web.completed["image"] # <<>>
    /\ \E written \in SUBSET Granted(web.completed["image"]) :
           images' = AllStored(images, web.completed["image"], written)
    /\ web' = Taken(web, "image")

RetryFailed ==
    /\ images' = [images EXCEPT !.failed = {}]
    /\ UNCHANGED web

ShutdownImages ==
    /\ ~images.stopping
    /\ images' = [images EXCEPT !.stopping = TRUE, !.inflight = {}, !.urlOf = {}]
    /\ UNCHANGED web

(* The transport's thread of the channel, and its end after the cache's.   *)
FetchImage ==
    /\ \/ CanStart(web, "image") /\ web' = Started(web, "image")
       \/ CanAnswer(web, "image") /\ \E ok \in BOOLEAN : web' = Answered(web, "image", ok)
    /\ UNCHANGED images
StopImages ==
    /\ images.stopping
    /\ \/ ~web.stopping /\ web' = Stopped(web)
       \/ CanJoin(web) /\ web' = Joined(web)
    /\ UNCHANGED images

ImagesInit ==
    /\ web = NewTransport
    /\ \E disk \in SUBSET Urls : images = [NewCache EXCEPT !.disk = disk]

ImagesNext ==
    \/ \E url \in Urls : RequestImage(url)
    \/ ProcessImages \/ RetryFailed \/ ShutdownImages \/ FetchImage \/ StopImages

ImageSpec == ImagesInit /\ [][ImagesNext]_imageVars

-----------------------------------------------------------------------------
(* A URL that is in flight has its request in the transport, and no other  *)
(* request is there: one that nothing would answer is never asked for      *)
(* again (request returns early for it).                                   *)
ImagesAreAnswered ==
    /\ web.outstanding["image"] = Cardinality(Held(web, "image"))
    /\ ~images.stopping =>
           /\ images.inflight = {e.url : e \in images.urlOf}
           /\ {e.id : e \in images.urlOf} = Held(web, "image")
=============================================================================
